---------------------------- MODULE Spec2Model ----------------------------
(***************************************************************************)
(* A model of bosley/beau: the chat-completion transport with its retry    *)
(* loop and streaming reader, the Conversation log, the tool kit dispatch, *)
(* the mage Execute loops and the asynchronous top-level agent.            *)
(*                                                                         *)
(* Strings are sequences of tokens (a token is a TLA+ string), so that     *)
(* concatenation, prefixes and formatting are computed and not assumed.    *)
(* Durations are integers (time.Duration ticks).                           *)
(***************************************************************************)
EXTENDS Integers, Sequences, FiniteSets, TLC

VARIABLES
    \* ---- mage (fsMage, imMage, webMage, shellMage) ----
    variant,          \* which mage was summoned: "fs", "im", "web", "sh"
    projectBounds,    \* len(portal.projectBounds)
    conversation,     \* m.conversation.messages
    resultBuilder,    \* m.resultBuilder, a sequence of tokens
    contextMessages,  \* m.contextMessages
    mpc,              \* position of the caller inside Execute
    ctxDone,          \* the ctx passed to Execute has been cancelled
    response,         \* the *Message returned by the last Conversation.Send
    sendErr,          \* the error returned by the last Conversation.Send
    callIdx,          \* index of the tool call HandleResponseCalls is at
    execResult,       \* the string returned by the last Execute
    execErr,          \* the error returned by the last Execute
    execCause,        \* the error the returned error wraps
    failedSends,      \* history: Conversation.Send calls of this Execute that failed
    nextId,           \* next fresh tool-call id handed out by the model
    \* history of the current Execute call (observers, not program state)
    sends,            \* Conversation.Send calls issued
    rounds,           \* HandleResponseCalls calls made
    toolResponses,    \* responses with tool calls received
    executes,         \* Execute calls started on this mage
    used,             \* requests sent so far, counted as for MaxSends
    logBeforeSend,    \* the log when the last Conversation.Send was issued
    cbLog,            \* callback invocations of the current HandleResponseCalls
    execLog,          \* executor outcomes of the current HandleResponseCalls
    hrcErr,           \* return value of the last HandleResponseCalls
    bufBeforeFinal,   \* resultBuilder before the final text was written
    \* ---- Client.doRequestWithRetry ----
    retryConfig,      \* x.RetryConfig
    attempt,          \* the loop variable attempt
    delay,            \* the local delay
    lastErr,          \* the local lastErr
    rpc,              \* position: "loop", "sleepErr", "sleep429", "done"
    rctxDone,         \* the ctx passed to doRequestWithRetry has been cancelled
    retResp,          \* the *http.Response returned
    retErr,           \* the error returned
    \* history of the call (observers, not program state)
    sleeps,           \* durations handed to time.After, in order
    outcomes,         \* what HTTPClient.Do returned, attempt by attempt
    delays,           \* the local delay at each call of HTTPClient.Do
    timerDue,         \* the channel of time.After(delay) is ready
    cancelPoint,      \* where doRequestWithRetry stood when ctx was cancelled
    sendRet,          \* what the buffered Client.Send returned
    \* ---- Client.handleStreamingResponse and the consumer of the sink ----
    streamCap,        \* cap(stream)
    sink,             \* chunks in the buffer of the channel stream
    spc,              \* position: "start", "scan", "send", "returned"
    pending,          \* the chunk of the send the producer is at
    after,            \* what follows that send
    sctxDone,         \* the ctx passed to Send has been cancelled
    fullMessage,      \* the local fullMessage
    accToolCalls,     \* the local toolCalls
    curDelta,         \* the delta of the line being processed
    linesRead,        \* lines the scanner has produced
    closeCount,       \* close(stream) calls made
    streamResp,       \* the response returned
    streamErr,        \* the error returned
    received,         \* chunks the consumer has received, in order
    consumerDone,     \* the consumer has seen the channel closed
    lineLog,          \* history: the lines read, in order
    \* ---- the top-level agent ----
    running,          \* a.running
    activeRequest,    \* a.activeRequest: 0 (nil) or the request it cancels
    agentConv,        \* a.conv: the conversation the agent points at
    convs,            \* the message log of every conversation created
    cancelled,        \* the requests whose context has been cancelled
    tasks,            \* the goroutines started for requests
    nextCallId,       \* next fresh tool-call id handed out by the model
    accepted,         \* SendMessage calls accepted
    resets,           \* ResetConversation calls made
    \* history (observers, not program state)
    interrupted,      \* a turn that is outstanding was interrupted or reset
    lastCall,         \* what the last SendMessage call met and did
    lastSend,         \* the log the last Conversation.Send was issued with
    sinceInterrupt,   \* a request was interrupted and no SendMessage has come since
    \* ---- one Conversation, called directly ----
    convMessages,     \* c.messages
    convBefore,       \* history: c.messages when the last call was made
    convCall,         \* history: the last call and its arguments
    \* ---- one LlmToolKit, built and then used ----
    kitTools,         \* x.tools: the names of the tools, in registration order
    ironedTools,      \* x.ironedTools
    kitCallback,      \* x.callback is not nil
    kitPhase,         \* "building" while the constructor chains With*, then "built"
    kitReturned,      \* history: what the GetTools calls returned, in order
    kitHandled,       \* history: the last HandleResponseCalls call
    \* ---- the replace_in_file tool of the validated filesystem kit ----
    files,            \* the file system: the content of every file that exists
    replCalls,        \* replace_in_file calls made
    filesBefore,      \* history: the file system when the last call was made
    replArgs,         \* history: the arguments of the last call
    replResult,       \* history: what the last call returned
    \* ---- the grep_file tool of the validated filesystem kit ----
    grepFiles,        \* the file system: the content of every file that exists
    gpc,              \* position of the executor: "idle", "scan", "returned"
    grepGiven,        \* the arguments as decoded from the call
    grepArgs,         \* the local args, defaults set
    grepPos,          \* bytes of the file the scanner has consumed
    allLines,         \* the local allLines
    grepMatches,      \* the local matches
    grepResult,       \* what the call returned
    \* ---- the loop of Execute, the message log left out ----
    loopModel,        \* the model behind the mage: "tools" asks for tools on every turn
    lpc,              \* position of the caller inside Execute
    loopCtxDone,      \* the ctx passed to Execute has been cancelled
    loopResp,         \* what the last Conversation.Send returned
    loopCalls,        \* len(response.ToolCalls)
    loopCallIdx,      \* index of the tool call HandleResponseCalls is at
    loopErr,          \* the error Execute returned
    loopRounds,       \* rounds of tool dispatch of this Execute, counted up to MaxLoopRounds
    \* ---- the turns of the agent as its Observer sees them, the log left out ----
    turnSlots,        \* the request goroutines of the agent that have not ended
    turnHandle,       \* a.activeRequest: the slot whose cancel function it holds, 0 is nil
    turnAwaiting,     \* a SendMessage returned nil and no OnComplete or OnError came since
    turnNote,         \* the last OnComplete or OnError
    turnErr           \* what the last SendMessage returned

mageVars == <<variant, projectBounds, conversation, resultBuilder,
              contextMessages, mpc, ctxDone, response, sendErr, callIdx,
              execResult, execErr, execCause, failedSends, nextId, sends, rounds,
              toolResponses,
              executes, used, logBeforeSend, cbLog, execLog, hrcErr, bufBeforeFinal>>

retryVars == <<retryConfig, attempt, delay, lastErr, rpc, rctxDone, retResp,
               retErr, sleeps, outcomes, delays, timerDue, cancelPoint,
               sendRet>>

streamVars == <<streamCap, sink, spc, pending, after, sctxDone, fullMessage,
                accToolCalls, curDelta, linesRead, closeCount, streamResp,
                streamErr, received, consumerDone, lineLog>>

agentVars == <<running, activeRequest, agentConv, convs, cancelled, tasks,
               nextCallId, accepted, resets, interrupted, lastCall, lastSend,
               sinceInterrupt>>

convVars == <<convMessages, convBefore, convCall>>

kitVars == <<kitTools, ironedTools, kitCallback, kitPhase, kitReturned, kitHandled>>

fileVars == <<files, replCalls, filesBefore, replArgs, replResult>>

grepVars == <<grepFiles, gpc, grepGiven, grepArgs, grepPos, allLines, grepMatches,
              grepResult>>

loopVars == <<loopModel, lpc, loopCtxDone, loopResp, loopCalls, loopCallIdx, loopErr, loopRounds>>

turnVars == <<turnSlots, turnHandle, turnAwaiting, turnNote, turnErr>>

\* everything that is not part of the mage
notMageVars == <<retryVars, streamVars, agentVars, convVars, kitVars, fileVars, grepVars, loopVars, turnVars>>

\* everything that is not part of doRequestWithRetry
notRetryVars == <<mageVars, streamVars, agentVars, convVars, kitVars, fileVars, grepVars, loopVars, turnVars>>

\* everything that is not part of handleStreamingResponse
notStreamVars == <<mageVars, retryVars, agentVars, convVars, kitVars, fileVars, grepVars, loopVars, turnVars>>

\* everything that is not part of the agent
notAgentVars == <<mageVars, retryVars, streamVars, convVars, kitVars, fileVars, grepVars, loopVars, turnVars>>

\* everything that is not part of the Conversation called directly
notConvVars == <<mageVars, retryVars, streamVars, agentVars, kitVars, fileVars, grepVars, loopVars, turnVars>>

\* everything that is not part of one tool kit used directly
notKitVars == <<mageVars, retryVars, streamVars, agentVars, convVars, fileVars, grepVars, loopVars, turnVars>>

\* everything that is not part of the replace_in_file tool
notFileVars == <<mageVars, retryVars, streamVars, agentVars, convVars, kitVars, grepVars, loopVars, turnVars>>

\* everything that is not part of the grep_file tool
notGrepVars == <<mageVars, retryVars, streamVars, agentVars, convVars, kitVars, fileVars, loopVars, turnVars>>

\* everything that is not part of the loop of Execute
notLoopVars == <<mageVars, retryVars, streamVars, agentVars, convVars, kitVars, fileVars, grepVars, turnVars>>

\* everything that is not part of the turns of the agent
notTurnVars == <<mageVars, retryVars, streamVars, agentVars, convVars, kitVars, fileVars, grepVars, loopVars>>

vars == <<mageVars, retryVars, streamVars, agentVars, convVars, kitVars, fileVars, grepVars, loopVars, turnVars>>

-----------------------------------------------------------------------------
(* Bounds of the model *)

\* tool calls the scripted model may request over the life of one mage
MaxToolCalls == 2
\* requests one mage may send over its life (an Execute counts for one even
\* when it is cancelled before its first request)
MaxSends == 2
\* context messages added to one mage
MaxContext == 1

-----------------------------------------------------------------------------
(* Messages *)

RoleSystem == "system"
RoleUser == "user"
RoleAssistant == "assistant"
RoleTool == "tool"

NoCalls == <<>>

\* A Message.  isString tells whether Content holds a Go string (the type
\* assertion response.Content.(string) succeeds) or structured content.
Msg(role, content, isString, toolCallID, toolCalls) ==
    [role |-> role, content |-> content, isString |-> isString,
     toolCallID |-> toolCallID, toolCalls |-> toolCalls]

NoMessage == Msg("none", <<>>, TRUE, 0, NoCalls)

CreateTextMessage(role, content) == Msg(role, content, TRUE, 0, NoCalls)

CreateComplexMessage(role, items) == Msg(role, items, FALSE, 0, NoCalls)

(* Conversation: the append operations on the message log *)

\* append putting the new message in front of the log
AddMessagePrepends(messages, message) == <<message>> \o messages

AddMessage(messages, message) == Append(messages, message)

AddSystemMessage(messages, content) ==
    AddMessage(messages, CreateTextMessage(RoleSystem, content))

AddUserMessage(messages, content) ==
    AddMessage(messages, CreateTextMessage(RoleUser, content))

AddAssistantMessage(messages, content) ==
    AddMessage(messages, CreateTextMessage(RoleAssistant, content))

AddComplexUserMessage(messages, items) ==
    AddMessage(messages, CreateComplexMessage(RoleUser, items))

AddToolResult(messages, toolCallID, result) ==
    AddMessage(messages, Msg(RoleTool, result, TRUE, toolCallID, NoCalls))

-----------------------------------------------------------------------------
(* Transport outcome of one chat-completion call, as Client.Send sees it *)

ErrNil == "nil"

\* What the provider and the network do with one request.
FailureKinds == {"transport_error", "status", "bad_json"}

\* Client.Send (buffered path): an error for a failed retry loop, a non-200
\* status or malformed JSON; otherwise the decoded response, whose Choices
\* may be empty.
ClientSend(outcome) ==
    IF outcome.kind \in FailureKinds \cup {"cancelled"}
    THEN [err |-> outcome.kind, choices |-> <<>>]
    ELSE IF outcome.kind = "zero_choices"
    THEN [err |-> ErrNil, choices |-> <<>>]
    ELSE [err |-> ErrNil, choices |-> <<outcome.message>>]

\* Conversation.Send with the append moved before the check of the choices:
\* a reply without choices leaves an empty message in the log.
ConvSendAppendsFirst(messages, outcome) ==
    LET r == ClientSend(outcome)
        m == IF Len(r.choices) = 0 THEN NoMessage ELSE r.choices[1]
    IN
    IF r.err # ErrNil
    THEN [messages |-> messages, message |-> NoMessage, err |-> r.err]
    ELSE IF Len(r.choices) = 0
    THEN [messages |-> Append(messages, m), message |-> NoMessage,
          err |-> "no_response_choices"]
    ELSE [messages |-> Append(messages, m), message |-> m, err |-> ErrNil]

\* Conversation.Send: the new log, the returned message and the error.
ConvSend(messages, outcome) ==
    LET r == ClientSend(outcome) IN
    IF r.err # ErrNil
    THEN [messages |-> messages, message |-> NoMessage, err |-> r.err]
    ELSE IF Len(r.choices) = 0
    THEN [messages |-> messages, message |-> NoMessage, err |-> "no_response_choices"]
    ELSE [messages |-> Append(messages, r.choices[1]),
          message |-> r.choices[1], err |-> ErrNil]

-----------------------------------------------------------------------------
(* Client.doRequestWithRetry.  A duration is a number of seconds; the      *)
(* float64 BackoffFactor is a fraction <<numerator, denominator>> and the  *)
(* conversion time.Duration(float64(delay) * factor) truncates.            *)

\* the largest MaxRetries a configuration of the model has
MaxRetriesBound == 2

DefaultMaxRetries == 3
DefaultInitialDelay == 1
DefaultMaxDelay == 32
DefaultBackoffFactor == <<2, 1>>
DefaultRateLimitDuration == 30

DefaultRetryConfig ==
    [MaxRetries |-> DefaultMaxRetries, InitialDelay |-> DefaultInitialDelay,
     MaxDelay |-> DefaultMaxDelay, BackoffFactor |-> DefaultBackoffFactor,
     Enabled |-> TRUE]

\* the configurations a client is built with: InitialDelay <= MaxDelay,
\* MaxRetries from -1 (the loop body never runs) upwards
\* the retries of the configuration that runs the default backoff to its cap
MaxRetriesLong == 7

\* the default delays with enough retries to reach MaxDelay; transport errors
\* are retried whatever Enabled is
LongBackoffConfig ==
    [MaxRetries |-> MaxRetriesLong, InitialDelay |-> DefaultInitialDelay,
     MaxDelay |-> DefaultMaxDelay, BackoffFactor |-> DefaultBackoffFactor,
     Enabled |-> FALSE]

RetryConfigs ==
    [MaxRetries : -1 .. MaxRetriesBound, InitialDelay : {1, 3}, MaxDelay : {4},
     BackoffFactor : {DefaultBackoffFactor, <<3, 2>>}, Enabled : BOOLEAN]
    \cup {LongBackoffConfig}

\* time.Duration(float64(d) * factor)
Scale(d, factor) == (d * factor[1]) \div factor[2]

\* the Retry-After header of a 429: absent, a number of seconds, an HTTP
\* date that lies `value` seconds ahead, or text that is neither
RetryAfterHeaders ==
    {[kind |-> "absent", value |-> 0], [kind |-> "seconds", value |-> 1],
     [kind |-> "seconds", value |-> 6], [kind |-> "date", value |-> 2],
     [kind |-> "date", value |-> -2],
     [kind |-> "garbage", value |-> 0]}

NoHeader == [kind |-> "absent", value |-> 0]

parseRetryAfter(header) ==
    CASE header.kind = "seconds" -> header.value
      [] header.kind = "date"    -> header.value
      [] OTHER                   -> DefaultRateLimitDuration

\* what x.HTTPClient.Do returns for one attempt
StatusOK == 200
StatusTooManyRequests == 429
StatusInternalServerError == 500

\* response bodies: a ChatCompletionResponse in JSON with one choice, one with
\* an empty list of choices, and a body that is not JSON
Bodies == {"{choices}", "{no choices}", "upstream failure"}

AttemptOutcomes ==
    {[kind |-> "error", status |-> 0, header |-> NoHeader, body |-> ""]}
    \cup {[kind |-> "response", status |-> st, header |-> NoHeader, body |-> b] :
             st \in {StatusOK, StatusInternalServerError}, b \in Bodies}
    \cup {[kind |-> "response", status |-> StatusTooManyRequests, header |-> h,
            body |-> "slow down"] :
             h \in RetryAfterHeaders}

\* errors: every one is a record with a field kind
NoErr == [kind |-> "nil"]
TransportErr(n) == [kind |-> "transport", attempt |-> n]
CtxErr == [kind |-> "context canceled"]
RateLimitError(d) == [kind |-> "RateLimitError", RetryAfter |-> d]
Wrap(sentinel, cause) == [kind |-> sentinel, cause |-> cause]
ErrMaxRetriesExceeded == "max retries exceeded"

NoResp == [status |-> 0]

ErrUnexpectedStatusCode == "API returned unexpected status code"
ErrReadResponseBody == "failed to read response body"
ErrUnmarshalResponse == "failed to unmarshal response"
ReadErr == [kind |-> "read"]
JSONErr == [kind |-> "json"]
\* json.Unmarshal(body, &result) succeeds
Decodes(body) == body \in {"{choices}", "{no choices}"}
\* result.Choices of a decoded response
Choices(result) ==
    IF result = "{choices}"
    THEN <<Msg(RoleAssistant, <<"answer">>, TRUE, 0, NoCalls)>>
    ELSE << >>
ErrNoResponseChoices == "no response choices returned"
\* fmt.Errorf("%w: %d: %s", ErrUnexpectedStatusCode, resp.StatusCode, string(body))
UnexpectedStatusCode(status, body) ==
    [kind |-> ErrUnexpectedStatusCode, status |-> status, body |-> body]
\* Client.Send has not returned
NoSendRet == [result |-> "", err |-> NoErr]

\* Conversation.Send taking every decoded response for a reply
ConversationSendUnchecked(messages, ret) ==
    IF ret.err # NoErr
    THEN [messages |-> messages, message |-> NoMessage, err |-> ret.err]
    ELSE LET message == IF Choices(ret.result) = << >> THEN NoMessage
                        ELSE Choices(ret.result)[1]
         IN [messages |-> Append(messages, message), message |-> message,
             err |-> NoErr]

\* Conversation.Send around a Client.Send that returned ret: the new log, the
\* message returned and the error
ConversationSend(messages, ret) ==
    IF ret.err # NoErr
    THEN [messages |-> messages, message |-> NoMessage, err |-> ret.err]
    ELSE IF Len(Choices(ret.result)) = 0
    THEN [messages |-> messages, message |-> NoMessage,
          err |-> [kind |-> ErrNoResponseChoices]]
    ELSE [messages |-> Append(messages, Choices(ret.result)[1]),
          message |-> Choices(ret.result)[1], err |-> NoErr]

\* ctx has not been cancelled
NoCancel == [pos |-> "none", attempt |-> 0, due |-> FALSE]

RetryInit ==
    /\ retryConfig \in RetryConfigs
    /\ attempt = 0
    /\ delay = retryConfig.InitialDelay
    /\ lastErr = NoErr
    /\ rpc = "loop"
    /\ rctxDone = FALSE
    /\ retResp = NoResp
    /\ retErr = NoErr
    /\ sleeps = << >>
    /\ outcomes = << >>
    /\ delays = << >>
    /\ timerDue = FALSE
    /\ cancelPoint = NoCancel
    /\ sendRet = NoSendRet

\* a client that is not in doRequestWithRetry
RetryIdle ==
    /\ retryConfig = DefaultRetryConfig
    /\ attempt = 0
    /\ delay = DefaultRetryConfig.InitialDelay
    /\ lastErr = NoErr
    /\ rpc = "sent"
    /\ rctxDone = FALSE
    /\ retResp = NoResp
    /\ retErr = NoErr
    /\ sleeps = << >>
    /\ outcomes = << >>
    /\ delays = << >>
    /\ timerDue = FALSE
    /\ cancelPoint = NoCancel
    /\ sendRet = NoSendRet

\* the caller cancels ctx
RetryCancel ==
    /\ rpc # "sent"
    /\ ~rctxDone
    /\ rctxDone' = TRUE
    /\ cancelPoint' = [pos |-> rpc, attempt |-> attempt, due |-> timerDue]
    /\ UNCHANGED <<retryConfig, attempt, delay, lastErr, rpc, retResp, retErr,
                   sleeps, outcomes, delays, timerDue, sendRet>>
    /\ UNCHANGED notRetryVars

\* the delay of a 429 without the cap at MaxDelay
RateLimitDelayUncapped(header, d, cfg) ==
    LET retryAfter == IF header.kind = "absent" THEN d ELSE parseRetryAfter(header)
    IN  IF retryAfter > d THEN retryAfter ELSE d

\* the delay of a 429 taken from the running delay alone
RateLimitDelayIgnoresHeader(header, d, cfg) ==
    IF d > cfg.MaxDelay THEN cfg.MaxDelay ELSE d

\* the delay a 429 with this header sleeps for: the larger of the header and
\* the running delay, capped at MaxDelay
RateLimitDelay(header, d, cfg) ==
    LET retryAfter == IF header.kind = "absent" THEN d ELSE parseRetryAfter(header)
        larger     == IF retryAfter > d THEN retryAfter ELSE d
    IN  IF larger > cfg.MaxDelay THEN cfg.MaxDelay ELSE larger

\* the return of doRequestWithRetry
RetryReturn(resp, err) ==
    /\ rpc' = "done"
    /\ retResp' = resp
    /\ retErr' = err

\* the loop body with the sleep taken on the last attempt too
RetryAttemptSleepsOnLast(o) ==
    /\ outcomes' = Append(outcomes, o)
    /\ delays' = Append(delays, delay)
    /\ IF o.kind = "error"
       THEN /\ lastErr' = TransportErr(attempt)
            /\ rpc' = "sleepErr"
            /\ sleeps' = Append(sleeps, delay)
            /\ UNCHANGED <<retResp, retErr, delay>>
       ELSE /\ RetryReturn([status |-> o.status, body |-> o.body], NoErr)
            /\ UNCHANGED <<delay, lastErr, sleeps>>

\* the delay after a sleep with the cap left out
DelayAfterSleepUncapped(pos, d, cfg) == Scale(d, cfg.BackoffFactor)

\* one pass of the loop body up to a return or a select: the request is
\* cloned with ctx, so a cancelled ctx makes Do fail
RetryAttemptWith(o) ==
    /\ outcomes' = Append(outcomes, o)
    /\ delays' = Append(delays, delay)
    /\ IF o.kind = "error"
       THEN /\ lastErr' = TransportErr(attempt)
            /\ IF attempt < retryConfig.MaxRetries
               THEN /\ rpc' = "sleepErr"
                    /\ sleeps' = Append(sleeps, delay)
                    /\ UNCHANGED <<retResp, retErr>>
               ELSE /\ RetryReturn(NoResp, TransportErr(attempt))
                    /\ UNCHANGED sleeps
            /\ UNCHANGED delay
       ELSE IF /\ o.status = StatusTooManyRequests
               /\ retryConfig.Enabled
               /\ attempt < retryConfig.MaxRetries
            THEN LET d == RateLimitDelay(o.header, delay, retryConfig)
                 IN  /\ delay' = d
                     /\ lastErr' = RateLimitError(d)
                     /\ rpc' = "sleep429"
                     /\ sleeps' = Append(sleeps, d)
                     /\ UNCHANGED <<retResp, retErr>>
            ELSE /\ RetryReturn([status |-> o.status, body |-> o.body], NoErr)
                 /\ UNCHANGED <<delay, lastErr, sleeps>>

RetryAttempt ==
    /\ rpc = "loop"
    /\ attempt <= retryConfig.MaxRetries
    /\ \E o \in AttemptOutcomes :
          /\ rctxDone => o.kind = "error"
          /\ RetryAttemptWith(o)
    /\ timerDue' = FALSE
    /\ UNCHANGED <<retryConfig, attempt, rctxDone, cancelPoint, sendRet>>
    /\ UNCHANGED notRetryVars

\* the loop condition fails
RetryExhausted ==
    /\ rpc = "loop"
    /\ attempt > retryConfig.MaxRetries
    /\ RetryReturn(NoResp, Wrap(ErrMaxRetriesExceeded, lastErr))
    /\ UNCHANGED <<retryConfig, attempt, delay, lastErr, rctxDone, sleeps, outcomes,
                   delays, timerDue, cancelPoint, sendRet>>
    /\ UNCHANGED notRetryVars

\* the running delay after a sleep that ran to its end
DelayAfterSleep(pos, d, cfg) ==
    LET scaled == Scale(d, cfg.BackoffFactor)
    IN  IF pos = "sleepErr" /\ scaled > cfg.MaxDelay THEN cfg.MaxDelay ELSE scaled

\* the timer of time.After(delay) fires. A select with a ready case is taken
\* before time advances: once ctx.Done() is ready the goroutine leaves the
\* select, so the timer fires only on a select that is still waiting
RetryTimer ==
    /\ rpc \in {"sleepErr", "sleep429"}
    /\ ~timerDue
    /\ ~rctxDone
    /\ timerDue' = TRUE
    /\ UNCHANGED <<retryConfig, attempt, delay, lastErr, rpc, rctxDone, retResp, retErr,
                   sleeps, outcomes, delays, cancelPoint, sendRet>>
    /\ UNCHANGED notRetryVars

\* case <-time.After(delay): multiply the delay and continue. With ctx.Done()
\* ready as well the select takes either case
RetryWake ==
    /\ rpc \in {"sleepErr", "sleep429"}
    /\ timerDue
    /\ delay' = DelayAfterSleep(rpc, delay, retryConfig)
    /\ attempt' = attempt + 1
    /\ rpc' = "loop"
    /\ timerDue' = FALSE
    /\ UNCHANGED <<retryConfig, lastErr, rctxDone, retResp, retErr, sleeps, outcomes,
                   delays, cancelPoint, sendRet>>
    /\ UNCHANGED notRetryVars

\* the select leaving the sleep on ctx.Done() and going on with the loop
RetryAbortSleepContinues ==
    /\ rpc \in {"sleepErr", "sleep429"}
    /\ rctxDone
    /\ rpc' = "loop"
    /\ attempt' = attempt + 1
    /\ UNCHANGED <<retryConfig, delay, lastErr, rctxDone, retResp, retErr, sleeps,
                   outcomes, delays, timerDue, cancelPoint, sendRet>>
    /\ UNCHANGED notRetryVars

\* case <-ctx.Done(): return ctx.Err()
RetryAbortSleep ==
    /\ rpc \in {"sleepErr", "sleep429"}
    /\ rctxDone
    /\ RetryReturn(NoResp, CtxErr)
    /\ UNCHANGED <<retryConfig, attempt, delay, lastErr, rctxDone, sleeps, outcomes,
                   delays, timerDue, cancelPoint, sendRet>>
    /\ UNCHANGED notRetryVars

\* the buffered Client.Send with its status check left out
SendBufferedAnyStatus ==
    /\ rpc = "done"
    /\ rpc' = "sent"
    /\ sendRet' = IF retErr # NoErr
                  THEN [result |-> "", err |-> retErr]
                  ELSE [result |-> retResp.body, err |-> NoErr]
    /\ UNCHANGED <<retryConfig, attempt, delay, lastErr, rctxDone, retResp, retErr,
                   sleeps, outcomes, delays, timerDue, cancelPoint>>
    /\ UNCHANGED notRetryVars

\* the buffered Client.Send after doRequestWithRetry has returned: the body is
\* read, the status checked, the body decoded
SendBuffered ==
    /\ rpc = "done"
    /\ rpc' = "sent"
    /\ IF retErr # NoErr
       THEN sendRet' = [result |-> "", err |-> retErr]
       ELSE \E read \in BOOLEAN :
               sendRet' =
                  IF ~read
                  THEN [result |-> "", err |-> Wrap(ErrReadResponseBody, ReadErr)]
                  ELSE IF retResp.status # StatusOK
                  THEN [result |-> "",
                        err |-> UnexpectedStatusCode(retResp.status, retResp.body)]
                  ELSE IF ~Decodes(retResp.body)
                  THEN [result |-> "", err |-> Wrap(ErrUnmarshalResponse, JSONErr)]
                  ELSE [result |-> retResp.body, err |-> NoErr]
    /\ UNCHANGED <<retryConfig, attempt, delay, lastErr, rctxDone, retResp, retErr,
                   sleeps, outcomes, delays, timerDue, cancelPoint>>
    /\ UNCHANGED notRetryVars

RetryNext ==
    \/ SendBuffered
    \/ RetryCancel
    \/ RetryAttempt
    \/ RetryExhausted
    \/ RetryTimer
    \/ RetryWake
    \/ RetryAbortSleep

-----------------------------------------------------------------------------
(* Client.handleStreamingResponse: the producer of the sink channel, and a  *)
(* consumer that receives from it.  A line of the body is a record: whether *)
(* it starts with "data: ", and the text after that prefix, which is empty, *)
(* the sentinel, a JSON delta (field json) or something else.               *)

\* lines the scanner hands out for one response body
MaxLines == 3

\* capacity of the channels the model passes as sink: unbuffered, one slot,
\* and the capacity the agent uses (never full within MaxLines)
AgentStreamBuffer == 100
StreamCaps == {0, 1, AgentStreamBuffer}

NoDelta == [choices |-> 0, content |-> <<>>, toolCalls |-> <<>>]
Delta(content, calls) == [choices |-> 1, content |-> content, toolCalls |-> calls]
Fragment(id, name, args) == [id |-> id, name |-> name, args |-> args]

Line(prefix, text, json) == [prefix |-> prefix, text |-> text, json |-> json]

StreamLines ==
    {Line(FALSE, "", NoDelta),
     Line(TRUE, "[DONE]", NoDelta),
     Line(FALSE, "[DONE]", NoDelta),
     Line(TRUE, "not json", NoDelta),
     Line(TRUE, "json", NoDelta),
     Line(TRUE, "json", Delta(<<"Hel">>, <<>>)),
     Line(TRUE, "json", Delta(<<"lo">>, <<>>)),
     Line(TRUE, "json", Delta(<<>>, <<Fragment("tc1", "search", <<"{q:">>)>>)),
     Line(TRUE, "json", Delta(<<>>, <<Fragment("", "", <<"cats}">>)>>)),
     Line(TRUE, "json", Delta(<<"!">>, <<Fragment("tc2", "list", <<>>)>>)),
     Line(TRUE, "json", Delta(<<>>, <<Fragment("", "", <<"cats}">>),
                                      Fragment("tc3", "read", <<"{}">>)>>))}

\* strings.TrimPrefix(line, "data: ")
TrimPrefix(line) == Line(FALSE, line.text, line.json)

\* line == ""
IsEmptyLine(line) == ~line.prefix /\ line.text = ""

\* json.Unmarshal succeeds on the text
Unmarshals(line) == line.text = "json"

\* the merge with the arguments of a continuation put in place of those
\* accumulated so far
MergeFragmentReplacesArguments(calls, tc) ==
    IF tc.id # ""
    THEN Append(calls, tc)
    ELSE IF Len(calls) > 0
    THEN LET last == calls[Len(calls)]
             name == IF tc.name # "" THEN tc.name ELSE last.name
             args == IF tc.args # <<>> THEN tc.args ELSE last.args
         IN  [calls EXCEPT ![Len(calls)] = Fragment(last.id, name, args)]
    ELSE calls

\* the merge of one delta fragment into the accumulated tool calls
MergeFragment(calls, tc) ==
    IF tc.id # ""
    THEN Append(calls, tc)
    ELSE IF Len(calls) > 0
    THEN LET last == calls[Len(calls)]
             name == IF tc.name # "" THEN tc.name ELSE last.name
             args == IF tc.args # <<>> THEN last.args \o tc.args ELSE last.args
         IN  [calls EXCEPT ![Len(calls)] = Fragment(last.id, name, args)]
    ELSE calls

RECURSIVE MergeToolCalls(_, _)
MergeToolCalls(calls, fragments) ==
    IF fragments = <<>> THEN calls
    ELSE MergeToolCalls(MergeFragment(calls, Head(fragments)), Tail(fragments))

\* StreamChunk
Chunk(content, err, done) == [Content |-> content, Error |-> err, Done |-> done]
ErrorChunk(err) == Chunk(<<>>, err, FALSE)
DoneChunk == Chunk(<<>>, NoErr, TRUE)
ContentChunk(content) == Chunk(content, NoErr, FALSE)

ErrReadStream == "error reading stream"
ScannerErr == [kind |-> "scanner"]

\* the synthesized final response: one choice
FinalResponse(content, calls) ==
    [choices |-> <<Msg(RoleAssistant, content, TRUE, 0, calls)>>]
NoResponse == [choices |-> <<>>]

\* what the producer does once a send has gone through
After(kind, err) == [kind |-> kind, err |-> err]
NoAfter == After("none", NoErr)

\* what doRequestWithRetry hands to handleStreamingResponse
RetryResults ==
    {[resp |-> NoResp, err |-> e] :
        e \in {TransportErr(0), CtxErr, Wrap(ErrMaxRetriesExceeded, NoErr)}}
    \cup {[resp |-> [status |-> st], err |-> NoErr] :
             st \in {StatusOK, StatusTooManyRequests, StatusInternalServerError}}

StreamInit ==
    /\ streamCap \in StreamCaps
    /\ sink = << >>
    /\ spc = "start"
    /\ pending = DoneChunk
    /\ after = NoAfter
    /\ sctxDone = FALSE
    /\ fullMessage = << >>
    /\ accToolCalls = << >>
    /\ curDelta = NoDelta
    /\ linesRead = 0
    /\ closeCount = 0
    /\ streamResp = NoResponse
    /\ streamErr = NoErr
    /\ received = << >>
    /\ consumerDone = FALSE
    /\ lineLog = << >>

\* no streaming call in progress
StreamIdle ==
    /\ streamCap = 0
    /\ sink = << >>
    /\ spc = "returned"
    /\ pending = DoneChunk
    /\ after = NoAfter
    /\ sctxDone = FALSE
    /\ fullMessage = << >>
    /\ accToolCalls = << >>
    /\ curDelta = NoDelta
    /\ linesRead = 0
    /\ closeCount = 0
    /\ streamResp = NoResponse
    /\ streamErr = NoErr
    /\ received = << >>
    /\ consumerDone = FALSE
    /\ lineLog = << >>

\* the caller cancels ctx
StreamCancel ==
    /\ spc # "returned"
    /\ ~sctxDone
    /\ sctxDone' = TRUE
    /\ UNCHANGED <<streamCap, sink, spc, pending, after, fullMessage, accToolCalls,
                   curDelta, linesRead, closeCount, streamResp, streamErr,
                   received, consumerDone, lineLog>>
    /\ UNCHANGED notStreamVars

\* stream <- chunk: the producer waits at the send
Emit(chunk, then) ==
    /\ pending' = chunk
    /\ after' = then
    /\ spc' = "send"

\* return of handleStreamingResponse
StreamReturn(resp, err) ==
    /\ spc' = "returned"
    /\ streamResp' = resp
    /\ streamErr' = err

\* resp, err := x.doRequestWithRetry(ctx, req) and the status check
StreamStart ==
    /\ spc = "start"
    /\ \E r \in RetryResults :
          /\ sctxDone => r.err # NoErr
          /\ IF r.err # NoErr
             THEN Emit(ErrorChunk(r.err), After("fail", r.err))
             ELSE IF r.resp.status # StatusOK
             THEN LET e == Wrap(ErrUnexpectedStatusCode, r.resp)
                  IN  Emit(ErrorChunk(e), After("fail", e))
             ELSE /\ spc' = "scan"
                  /\ UNCHANGED <<pending, after>>
    /\ UNCHANGED <<streamCap, sink, sctxDone, fullMessage, accToolCalls, curDelta,
                   linesRead, closeCount, streamResp, streamErr, received,
                   consumerDone, lineLog>>
    /\ UNCHANGED notStreamVars

\* the body of the for loop for one line the scanner produced
StreamLineBody(raw) ==
    /\ linesRead' = linesRead + 1
    /\ lineLog' = Append(lineLog, raw)
    /\ IF sctxDone
       THEN /\ Emit(ErrorChunk(CtxErr), After("fail", CtxErr))
            /\ UNCHANGED <<fullMessage, accToolCalls, curDelta>>
       ELSE IF IsEmptyLine(raw)
       THEN UNCHANGED <<spc, pending, after, fullMessage, accToolCalls, curDelta>>
       ELSE LET line == TrimPrefix(raw) IN
            IF line.text = "[DONE]"
            THEN /\ Emit(DoneChunk, After("done", NoErr))
                 /\ UNCHANGED <<fullMessage, accToolCalls, curDelta>>
            ELSE IF ~Unmarshals(line) \/ line.json.choices = 0
            THEN UNCHANGED <<spc, pending, after, fullMessage, accToolCalls, curDelta>>
            ELSE IF line.json.content # <<>>
            THEN /\ Emit(ContentChunk(line.json.content), After("content", NoErr))
                 /\ curDelta' = line.json
                 /\ UNCHANGED <<fullMessage, accToolCalls>>
            ELSE /\ accToolCalls' = MergeToolCalls(accToolCalls, line.json.toolCalls)
                 /\ UNCHANGED <<spc, pending, after, fullMessage, curDelta>>

\* scanner.Scan() returned true
StreamLine ==
    /\ spc = "scan"
    /\ linesRead < MaxLines
    /\ \E raw \in StreamLines : StreamLineBody(raw)
    /\ UNCHANGED <<streamCap, sink, sctxDone, closeCount, streamResp, streamErr,
                   received, consumerDone>>
    /\ UNCHANGED notStreamVars

\* scanner.Scan() returned false: the body ended, or reading it failed
StreamEnd ==
    /\ spc = "scan"
    /\ \E failed \in BOOLEAN :
          IF failed
          THEN /\ Emit(ErrorChunk(Wrap(ErrReadStream, ScannerErr)),
                       After("fail", ScannerErr))
               /\ UNCHANGED <<streamResp, streamErr>>
          ELSE /\ StreamReturn(FinalResponse(fullMessage, accToolCalls), NoErr)
               /\ UNCHANGED <<pending, after>>
    /\ UNCHANGED <<streamCap, sink, sctxDone, fullMessage, accToolCalls, curDelta,
                   linesRead, closeCount, received, consumerDone, lineLog>>
    /\ UNCHANGED notStreamVars

\* the statements that follow a send, with the content of the chunk put in
\* place of fullMessage
StreamResumeKeepsLastContent ==
    CASE after.kind = "content" ->
            /\ fullMessage' = pending.Content
            /\ accToolCalls' = MergeToolCalls(accToolCalls, curDelta.toolCalls)
            /\ spc' = "scan"
            /\ UNCHANGED <<closeCount, streamResp, streamErr>>
      [] after.kind = "done" ->
            /\ closeCount' = closeCount + 1
            /\ StreamReturn(FinalResponse(fullMessage, accToolCalls), NoErr)
            /\ UNCHANGED <<fullMessage, accToolCalls>>
      [] OTHER ->
            /\ closeCount' = closeCount + 1
            /\ StreamReturn(NoResponse, after.err)
            /\ UNCHANGED <<fullMessage, accToolCalls>>

\* the statements that follow a send
StreamResume ==
    CASE after.kind = "content" ->
            /\ fullMessage' = fullMessage \o pending.Content
            /\ accToolCalls' = MergeToolCalls(accToolCalls, curDelta.toolCalls)
            /\ spc' = "scan"
            /\ UNCHANGED <<closeCount, streamResp, streamErr>>
      [] after.kind = "done" ->
            /\ closeCount' = closeCount + 1
            /\ StreamReturn(FinalResponse(fullMessage, accToolCalls), NoErr)
            /\ UNCHANGED <<fullMessage, accToolCalls>>
      [] OTHER ->
            /\ closeCount' = closeCount + 1
            /\ StreamReturn(NoResponse, after.err)
            /\ UNCHANGED <<fullMessage, accToolCalls>>

\* the send goes into the buffer of the channel
StreamSendBuffered ==
    /\ spc = "send"
    /\ Len(sink) < streamCap
    /\ sink' = Append(sink, pending)
    /\ StreamResume
    /\ UNCHANGED <<streamCap, pending, after, sctxDone, curDelta, linesRead,
                   received, consumerDone, lineLog>>
    /\ UNCHANGED notStreamVars

\* the send meets a receiver on an unbuffered channel
StreamHandoff ==
    /\ spc = "send"
    /\ streamCap = 0
    /\ ~consumerDone
    /\ received' = Append(received, pending)
    /\ StreamResume
    /\ UNCHANGED <<streamCap, sink, pending, after, sctxDone, curDelta, linesRead,
                   consumerDone, lineLog>>
    /\ UNCHANGED notStreamVars

\* the consumer receives a buffered chunk
StreamRecv ==
    /\ sink # << >>
    /\ ~consumerDone
    /\ received' = Append(received, Head(sink))
    /\ sink' = Tail(sink)
    /\ UNCHANGED <<streamCap, spc, pending, after, sctxDone, fullMessage,
                   accToolCalls, curDelta, linesRead, closeCount, streamResp,
                   streamErr, consumerDone, lineLog>>
    /\ UNCHANGED notStreamVars

\* the consumer finds the channel closed and drained
StreamRecvClosed ==
    /\ sink = << >>
    /\ closeCount > 0
    /\ ~consumerDone
    /\ consumerDone' = TRUE
    /\ UNCHANGED <<streamCap, sink, spc, pending, after, sctxDone, fullMessage,
                   accToolCalls, curDelta, linesRead, closeCount, streamResp,
                   streamErr, received, lineLog>>
    /\ UNCHANGED notStreamVars

StreamNext ==
    \/ StreamCancel
    \/ StreamStart
    \/ StreamLine
    \/ StreamEnd
    \/ StreamSendBuffered
    \/ StreamHandoff
    \/ StreamRecv
    \/ StreamRecvClosed

-----------------------------------------------------------------------------
(* Values that flow from a tool executor to the kit callback *)

\* What an executor may return (interface{}): a string, a byte slice, a map
\* with the keys the shell and web callbacks look for, a map without them.
StrVal == [kind |-> "string", text |-> <<"out">>, keys |-> {}]
BytesVal == [kind |-> "bytes", text |-> <<"out">>, keys |-> {}]
MapFull == [kind |-> "map", text |-> <<"full">>,
            keys |-> {"stdout", "stderr", "exit_code", "success", "message", "screenshot"}]
MapBare == [kind |-> "map", text |-> <<"bare">>, keys |-> {"info"}]

\* The values the tools of each kit return: fskit strings and maps, imkit
\* strings, webkit maps with success true or false, shellkit maps.
ExecValues(v) ==
    CASE v = "fs" -> {StrVal, MapBare}
      [] v = "im" -> {StrVal, BytesVal}
      [] OTHER -> {MapFull, MapBare}

\* No executor was called.
NoValue == [kind |-> "none", text |-> <<>>, keys |-> {}]

\* The error an executor may return.
ExecError == [kind |-> "error", text |-> <<"boom">>, keys |-> {}]

\* The outcomes of tool.Call: (result, nil) or (nil, err).
ExecOutcomes(v) ==
    [err : {FALSE}, value : ExecValues(v)] \cup [err : {TRUE}, value : {ExecError}]

\* errMsg of HandleResponseCalls for a name that is not in the kit.
NotFoundError(name) ==
    [kind |-> "error", text |-> <<"Tool '", name, "' not found in toolkit">>, keys |-> {}]

\* The value stored in a map under key.
MapGet(v, key) == <<key>>

\* fmt.Sprintf("%v", v)
Sprintv(v) ==
    CASE v.kind = "string" -> v.text
      [] v.kind = "error" -> v.text
      [] v.kind = "bytes" -> <<"[">> \o v.text \o <<"]bytes">>
      [] OTHER -> <<"map[">> \o v.text \o <<"]">>

\* string(v) of a []byte
GoString(v) == v.text

\* formatMapResult, for a map with a single key (the iteration order of a Go
\* map with several keys is not fixed)
formatMapResult(v) ==
    LET k == CHOOSE x \in v.keys : TRUE IN <<k, ": ">> \o MapGet(v, k)

-----------------------------------------------------------------------------
(* Tool kit *)

\* x.tools of the kit of a mage: the names of its tools, in registration order
KitTools == <<"t1", "t2">>

\* The names a model may put in a tool call: a registered one, an unknown one
CallNames == {"t2", "nope"}

\* The inner loop of HandleResponseCalls: the first tool whose name matches,
\* 0 when there is none.
FindTool(tools, name) ==
    IF \E i \in 1..Len(tools) : tools[i] = name
    THEN CHOOSE i \in 1..Len(tools) :
            tools[i] = name /\ \A j \in 1..(i - 1) : tools[j] # name
    ELSE 0

\* What HandleResponseCalls hands to the callback for one tool call, given
\* the outcome of the executor (used only when the tool is found).
CallbackArgs(tools, toolCall, outcome) ==
    IF FindTool(tools, toolCall.name) = 0
    THEN [isError |-> TRUE, id |-> toolCall.id, result |-> NotFoundError(toolCall.name)]
    ELSE [isError |-> outcome.err, id |-> toolCall.id, result |-> outcome.value]

-----------------------------------------------------------------------------
(* The kit callbacks of the four mages: the new conversation log and the    *)
(* new result buffer                                                        *)

CbState(conv, rb) == [conversation |-> conv, resultBuilder |-> rb]

fsCallback(conv, rb, isError, id, result) ==
    IF isError THEN CbState(conv, rb)
    ELSE CASE result.kind = "string" ->
                CbState(AddToolResult(conv, id, result.text), rb \o result.text)
           [] result.kind = "bytes" ->
                CbState(AddToolResult(conv, id, GoString(result)), rb \o GoString(result))
           [] OTHER ->
                CbState(AddToolResult(conv, id, Sprintv(result)), rb \o Sprintv(result))

imCallback(conv, rb, isError, id, result) ==
    IF isError THEN CbState(conv, rb)
    ELSE CASE result.kind = "string" ->
                CbState(AddToolResult(conv, id, result.text), rb \o result.text)
           [] result.kind = "bytes" ->
                CbState(AddToolResult(conv, id, GoString(result)), rb \o GoString(result))
           [] OTHER ->
                CbState(AddToolResult(conv, id, Sprintv(result)), rb \o Sprintv(result))

webCallback(conv, rb, isError, id, result) ==
    IF isError THEN CbState(conv, rb)
    ELSE CASE result.kind = "string" ->
                CbState(AddToolResult(conv, id, result.text), rb \o result.text)
           [] result.kind = "map" ->
                IF "success" \in result.keys
                THEN LET c1 == IF "message" \in result.keys
                               THEN AddToolResult(conv, id, MapGet(result, "message"))
                               ELSE conv
                         b1 == IF "message" \in result.keys
                               THEN rb \o MapGet(result, "message") \o <<"\n">>
                               ELSE rb
                         b2 == IF "screenshot" \in result.keys
                               THEN b1 \o <<"Screenshot saved: ">>
                                       \o MapGet(result, "screenshot") \o <<"\n">>
                               ELSE b1
                     IN CbState(c1, b2)
                ELSE CbState(conv, rb)
           [] OTHER ->
                CbState(AddToolResult(conv, id, Sprintv(result)),
                        rb \o Sprintv(result) \o <<"\n">>)

shellCallback(conv, rb, isError, id, result) ==
    IF isError
    THEN CbState(AddToolResult(conv, id, <<"Error: ">> \o Sprintv(result)),
                 rb \o <<"Error: ">> \o Sprintv(result) \o <<"\n">>)
    ELSE CASE result.kind = "string" ->
                CbState(AddToolResult(conv, id, result.text), rb \o result.text \o <<"\n">>)
           [] result.kind = "map" ->
                IF "stdout" \in result.keys
                THEN LET o1 == MapGet(result, "stdout")
                         o2 == IF "stderr" \in result.keys
                               THEN o1 \o <<"\nStderr: ">> \o MapGet(result, "stderr")
                               ELSE o1
                         o3 == IF "exit_code" \in result.keys
                               THEN o2 \o <<"\nExit code: ">> \o MapGet(result, "exit_code")
                               ELSE o2
                     IN CbState(AddToolResult(conv, id, o3), rb \o o3 \o <<"\n">>)
                ELSE CbState(AddToolResult(conv, id, formatMapResult(result)),
                             rb \o formatMapResult(result) \o <<"\n">>)
           [] OTHER ->
                CbState(AddToolResult(conv, id, Sprintv(result)),
                        rb \o Sprintv(result) \o <<"\n">>)

\* The callback registered on the kit of the mage of the given variant.
MageCallback(v, conv, rb, isError, id, result) ==
    CASE v = "fs" -> fsCallback(conv, rb, isError, id, result)
      [] v = "im" -> imCallback(conv, rb, isError, id, result)
      [] v = "web" -> webCallback(conv, rb, isError, id, result)
      [] OTHER -> shellCallback(conv, rb, isError, id, result)

-----------------------------------------------------------------------------
(* The mage: construction, Reset, AddToContext and the Execute loop *)

MageVariants == {"fs", "im", "web", "sh"}

\* The strings the model does not look into
Command == <<"command">>
ContextText == <<"context">>
BoundsInfo == <<"project bounds">>
PlatformContext == <<"platform">>

\* Errors returned by Execute
ErrCancelled == "execution cancelled"
\* ctx.Err() of a cancelled context
CtxCanceled == "context canceled"
ErrFailedResponse == "failed to get response"
ErrNotString == "response content is not a string"

\* The replies a model can give to one request
TextReply == Msg(RoleAssistant, <<"answer">>, TRUE, 0, NoCalls)
StructuredReply == Msg(RoleAssistant, <<"item">>, FALSE, 0, NoCalls)
ToolReply(first, names) ==
    Msg(RoleAssistant, <<>>, TRUE, 0,
        [i \in 1..Len(names) |-> [id |-> first + i - 1, name |-> names[i]]])

\* Sequences of 1..n tool names
NameSeqs(n) == UNION {[1..k -> CallNames] : k \in 1..n}

\* Outcomes of one request, given how many tool calls the model may still ask
SendOutcomes(first, budget) ==
    {[kind |-> k, message |-> NoMessage] : k \in FailureKinds \cup {"zero_choices"}}
    \cup {[kind |-> "ok", message |-> m] : m \in {TextReply, StructuredReply}}
    \cup {[kind |-> "ok", message |-> ToolReply(first, names)] : names \in NameSeqs(budget)}

\* the system messages every Execute puts before the command
ExecutePreamble(v, conv, nbounds, ctxMsgs) ==
    LET RECURSIVE AddAll(_, _)
        AddAll(c, msgs) ==
            IF msgs = <<>> THEN c
            ELSE AddAll(AddSystemMessage(c, Head(msgs)), Tail(msgs))
        c0 == IF v = "sh" THEN AddSystemMessage(conv, PlatformContext)
              ELSE IF nbounds > 0 THEN AddSystemMessage(conv, BoundsInfo)
              ELSE conv
    IN AddAll(c0, ctxMsgs)

MageInit ==
    /\ variant \in MageVariants
    /\ projectBounds \in {0, 1}
    /\ (variant = "sh" => projectBounds = 1)
    /\ conversation = <<>>
    /\ resultBuilder = <<>>
    /\ contextMessages = <<>>
    /\ mpc = "idle"
    /\ ctxDone = FALSE
    /\ response = NoMessage
    /\ sendErr = ErrNil
    /\ callIdx = 0
    /\ execResult = <<>>
    /\ execErr = ErrNil
    /\ execCause = ErrNil
    /\ failedSends = 0
    /\ nextId = 1
    /\ sends = 0
    /\ rounds = 0
    /\ toolResponses = 0
    /\ executes = 0
    /\ used = 0
    /\ logBeforeSend = <<>>
    /\ cbLog = <<>>
    /\ execLog = <<>>
    /\ hrcErr = ErrNil
    /\ bufBeforeFinal = <<>>

\* a process that has summoned no mage of interest
MageIdle ==
    /\ MageInit
    /\ variant = "fs"
    /\ projectBounds = 0

mageHistory == <<sends, rounds, toolResponses, logBeforeSend, cbLog, execLog,
                 hrcErr, bufBeforeFinal>>

\* Between two calls the caller holds no context, no response and no return
\* value of the mage, and the observers start afresh.
Forget ==
    /\ ctxDone' = FALSE
    /\ response' = NoMessage
    /\ sendErr' = ErrNil
    /\ callIdx' = 0
    /\ execResult' = <<>>
    /\ execErr' = ErrNil
    /\ execCause' = ErrNil
    /\ failedSends' = 0
    /\ sends' = 0
    /\ rounds' = 0
    /\ toolResponses' = 0
    /\ logBeforeSend' = <<>>
    /\ cbLog' = <<>>
    /\ execLog' = <<>>
    /\ hrcErr' = ErrNil
    /\ bufBeforeFinal' = <<>>

\* resetConversationInternals, as called by Reset
MageReset ==
    /\ mpc \in {"idle", "done"}
    /\ executes > 0
    /\ resultBuilder' = <<>>
    /\ contextMessages' = <<>>
    /\ conversation' = <<>>
    /\ mpc' = "idle"
    /\ Forget
    /\ UNCHANGED <<variant, projectBounds, nextId, executes, used>>
    /\ UNCHANGED notMageVars

MageAddToContext ==
    /\ mpc \in {"idle", "done"}
    /\ Len(contextMessages) < MaxContext
    /\ contextMessages' = Append(contextMessages, ContextText)
    /\ mpc' = "idle"
    /\ Forget
    /\ UNCHANGED <<variant, projectBounds, conversation, resultBuilder, nextId,
                   executes, used>>
    /\ UNCHANGED notMageVars

\* Execute up to the loop: the preamble, the command
MageExecute ==
    /\ mpc \in {"idle", "done"}
    /\ used < MaxSends
    /\ executes' = executes + 1
    /\ used' = used + 1
    /\ resultBuilder' = IF variant = "sh" THEN <<>> ELSE resultBuilder
    /\ conversation' =
          AddUserMessage(
              ExecutePreamble(variant, conversation, projectBounds, contextMessages),
              Command)
    /\ mpc' = "top"
    /\ Forget
    /\ UNCHANGED <<variant, projectBounds, contextMessages, nextId>>
    /\ UNCHANGED notMageVars

\* The caller's context is cancelled while Execute runs
MageCancel ==
    /\ mpc \in {"top", "sending", "inspect", "dispatch"}
    /\ ~ctxDone
    /\ ctxDone' = TRUE
    /\ UNCHANGED <<variant, projectBounds, conversation, resultBuilder,
                   contextMessages, mpc, response, sendErr, callIdx, execResult,
                   execErr, nextId, executes, used, mageHistory>>
    /\ UNCHANGED <<execCause, failedSends>>
    /\ UNCHANGED notMageVars

\* The top of the loop without the check of ctx.Done: Conversation.Send is
\* called whatever the state of ctx
MageLoopTopUnchecked ==
    /\ mpc = "top"
    /\ mpc' = "sending"
    /\ sends' = sends + 1
    /\ used' = IF sends = 0 THEN used ELSE used + 1
    /\ logBeforeSend' = conversation
    /\ cbLog' = <<>>
    /\ execLog' = <<>>
    /\ UNCHANGED <<variant, projectBounds, conversation, resultBuilder,
                   contextMessages, ctxDone, response, sendErr, callIdx, nextId,
                   executes, rounds, toolResponses, hrcErr, bufBeforeFinal,
                   execResult, execErr>>
    /\ UNCHANGED <<execCause, failedSends>>
    /\ UNCHANGED notMageVars

\* The top of the loop putting the command into the log again before every
\* request
MageLoopTopRepeatsCommand ==
    /\ mpc = "top"
    /\ IF ctxDone
       THEN /\ mpc' = "done"
            /\ execResult' = <<>>
            /\ execErr' = ErrCancelled
            /\ execCause' = CtxCanceled
            /\ UNCHANGED <<sends, logBeforeSend, used, conversation>>
       ELSE /\ mpc' = "sending"
            /\ sends' = sends + 1
            /\ used' = IF sends = 0 THEN used ELSE used + 1
            /\ conversation' = IF sends = 0 THEN conversation
                                ELSE AddUserMessage(conversation, Command)
            /\ logBeforeSend' = conversation'
            /\ UNCHANGED <<execResult, execErr, execCause>>
    /\ cbLog' = <<>>
    /\ execLog' = <<>>
    /\ UNCHANGED <<variant, projectBounds, resultBuilder,
                   contextMessages, ctxDone, response, sendErr, callIdx, nextId,
                   executes, rounds, toolResponses, hrcErr, bufBeforeFinal>>
    /\ UNCHANGED failedSends
    /\ UNCHANGED notMageVars

\* Top of the loop: the non-blocking check of ctx.Done, then the call of
\* Conversation.Send
MageLoopTop ==
    /\ mpc = "top"
    /\ IF ctxDone
       THEN /\ mpc' = "done"
            /\ execResult' = <<>>
            /\ execErr' = ErrCancelled
            /\ execCause' = CtxCanceled
            /\ UNCHANGED <<sends, logBeforeSend, used>>
       ELSE /\ mpc' = "sending"
            /\ sends' = sends + 1
            /\ used' = IF sends = 0 THEN used ELSE used + 1
            /\ logBeforeSend' = conversation
            /\ UNCHANGED <<execResult, execErr, execCause>>
    /\ cbLog' = <<>>
    /\ execLog' = <<>>
    /\ UNCHANGED <<variant, projectBounds, conversation, resultBuilder,
                   contextMessages, ctxDone, response, sendErr, callIdx, nextId,
                   executes, rounds, toolResponses, hrcErr, bufBeforeFinal>>
    /\ UNCHANGED failedSends
    /\ UNCHANGED notMageVars

\* The tool calls the model may ask for in its next reply: it asks for tools
\* only while the follow-up request is within the bounds of the model.
ToolBudget == IF used < MaxSends THEN MaxToolCalls - (nextId - 1) ELSE 0

\* Conversation.Send returns.  A request under a cancelled context fails.
MageSendReturn ==
    /\ mpc = "sending"
    /\ \E outcome \in IF ctxDone
                      THEN {[kind |-> "cancelled", message |-> NoMessage]}
                      ELSE SendOutcomes(nextId, ToolBudget) :
          LET r == ConvSend(conversation, outcome) IN
          /\ conversation' = r.messages
          /\ response' = r.message
          /\ sendErr' = r.err
          /\ failedSends' = IF r.err # ErrNil THEN failedSends + 1 ELSE failedSends
          /\ nextId' = nextId + Len(r.message.toolCalls)
          /\ toolResponses' = IF outcome.kind = "ok" /\ Len(outcome.message.toolCalls) > 0
                              THEN toolResponses + 1 ELSE toolResponses
    /\ bufBeforeFinal' = resultBuilder
    /\ mpc' = "inspect"
    /\ UNCHANGED <<variant, projectBounds, resultBuilder, contextMessages, ctxDone,
                   callIdx, execResult, execErr, executes, used, sends, rounds,
                   logBeforeSend, cbLog, execLog, hrcErr>>
    /\ UNCHANGED execCause
    /\ UNCHANGED notMageVars

\* Execute with a retry of its own: a failed Send that is not a cancellation
\* goes back to the top of the loop.
MageInspectRetry ==
    /\ mpc = "inspect"
    /\ IF sendErr # ErrNil
       THEN IF ctxDone
            THEN /\ mpc' = "done"
                 /\ execResult' = <<>>
                 /\ execErr' = ErrCancelled
                 /\ execCause' = CtxCanceled
                 /\ UNCHANGED <<resultBuilder, callIdx, rounds, cbLog, execLog>>
            ELSE /\ mpc' = "top"
                 /\ UNCHANGED <<execCause, execResult, execErr, resultBuilder, callIdx, rounds,
                                cbLog, execLog>>
       ELSE IF Len(response.toolCalls) = 0
       THEN IF ~response.isString
            THEN /\ mpc' = "done"
                 /\ execResult' = <<>>
                 /\ execErr' = ErrNotString
                 /\ execCause' = ErrNil
                 /\ UNCHANGED <<resultBuilder, callIdx, rounds, cbLog, execLog>>
            ELSE /\ mpc' = "done"
                 /\ resultBuilder' = resultBuilder \o response.content
                 /\ execResult' = resultBuilder \o response.content
                 /\ execErr' = ErrNil
                 /\ execCause' = ErrNil
                 /\ UNCHANGED <<callIdx, rounds, cbLog, execLog>>
       ELSE /\ mpc' = "dispatch"
            /\ callIdx' = 1
            /\ rounds' = rounds + 1
            /\ cbLog' = <<>>
            /\ execLog' = <<>>
            /\ UNCHANGED <<resultBuilder, execResult, execErr, execCause>>
    /\ UNCHANGED <<variant, projectBounds, conversation, contextMessages, ctxDone,
                   response, sendErr, nextId, executes, used, sends, toolResponses,
                   logBeforeSend, hrcErr, bufBeforeFinal>>
    /\ UNCHANGED failedSends
    /\ UNCHANGED notMageVars

\* Execute reporting every failed Send as a failure to get a response,
\* without looking at ctx.
MageInspectUnclassified ==
    /\ mpc = "inspect"
    /\ IF sendErr # ErrNil
       THEN /\ mpc' = "done"
            /\ execResult' = <<>>
            /\ execErr' = ErrFailedResponse
            /\ execCause' = sendErr
            /\ UNCHANGED <<resultBuilder, callIdx, rounds, cbLog, execLog>>
       ELSE IF Len(response.toolCalls) = 0
       THEN IF ~response.isString
            THEN /\ mpc' = "done"
                 /\ execResult' = <<>>
                 /\ execErr' = ErrNotString
                 /\ execCause' = ErrNil
                 /\ UNCHANGED <<resultBuilder, callIdx, rounds, cbLog, execLog>>
            ELSE /\ mpc' = "done"
                 /\ resultBuilder' = resultBuilder \o response.content
                 /\ execResult' = resultBuilder \o response.content
                 /\ execErr' = ErrNil
                 /\ execCause' = ErrNil
                 /\ UNCHANGED <<callIdx, rounds, cbLog, execLog>>
       ELSE /\ mpc' = "dispatch"
            /\ callIdx' = 1
            /\ rounds' = rounds + 1
            /\ cbLog' = <<>>
            /\ execLog' = <<>>
            /\ UNCHANGED <<resultBuilder, execResult, execErr, execCause>>
    /\ UNCHANGED <<variant, projectBounds, conversation, contextMessages, ctxDone,
                   response, sendErr, nextId, executes, used, sends, toolResponses,
                   logBeforeSend, hrcErr, bufBeforeFinal>>
    /\ UNCHANGED failedSends
    /\ UNCHANGED notMageVars

\* Execute returning the text of the final response alone.
MageInspectTextOnly ==
    /\ mpc = "inspect"
    /\ IF sendErr # ErrNil
       THEN /\ mpc' = "done"
            /\ execResult' = <<>>
            /\ execErr' = IF ctxDone THEN ErrCancelled ELSE ErrFailedResponse
            /\ execCause' = IF ctxDone THEN CtxCanceled ELSE sendErr
            /\ UNCHANGED <<resultBuilder, callIdx, rounds, cbLog, execLog>>
       ELSE IF Len(response.toolCalls) = 0
       THEN IF ~response.isString
            THEN /\ mpc' = "done"
                 /\ execResult' = <<>>
                 /\ execErr' = ErrNotString
                 /\ execCause' = ErrNil
                 /\ UNCHANGED <<resultBuilder, callIdx, rounds, cbLog, execLog>>
            ELSE /\ mpc' = "done"
                 /\ resultBuilder' = resultBuilder \o response.content
                 /\ execResult' = response.content
                 /\ execErr' = ErrNil
                 /\ execCause' = ErrNil
                 /\ UNCHANGED <<callIdx, rounds, cbLog, execLog>>
       ELSE /\ mpc' = "dispatch"
            /\ callIdx' = 1
            /\ rounds' = rounds + 1
            /\ cbLog' = <<>>
            /\ execLog' = <<>>
            /\ UNCHANGED <<resultBuilder, execResult, execErr, execCause>>
    /\ UNCHANGED <<variant, projectBounds, conversation, contextMessages, ctxDone,
                   response, sendErr, nextId, executes, used, sends, toolResponses,
                   logBeforeSend, hrcErr, bufBeforeFinal>>
    /\ UNCHANGED failedSends
    /\ UNCHANGED notMageVars

\* The code after Conversation.Send: the error, the final text, or the call
\* of HandleResponseCalls
MageInspect ==
    /\ mpc = "inspect"
    /\ IF sendErr # ErrNil
       THEN /\ mpc' = "done"
            /\ execResult' = <<>>
            /\ execErr' = IF ctxDone THEN ErrCancelled ELSE ErrFailedResponse
            /\ execCause' = IF ctxDone THEN CtxCanceled ELSE sendErr
            /\ UNCHANGED <<resultBuilder, callIdx, rounds, cbLog, execLog>>
       ELSE IF Len(response.toolCalls) = 0
       THEN IF ~response.isString
            THEN /\ mpc' = "done"
                 /\ execResult' = <<>>
                 /\ execErr' = ErrNotString
                 /\ execCause' = ErrNil
                 /\ UNCHANGED <<resultBuilder, callIdx, rounds, cbLog, execLog>>
            ELSE /\ mpc' = "done"
                 /\ resultBuilder' = resultBuilder \o response.content
                 /\ execResult' = resultBuilder \o response.content
                 /\ execErr' = ErrNil
                 /\ execCause' = ErrNil
                 /\ UNCHANGED <<callIdx, rounds, cbLog, execLog>>
       ELSE /\ mpc' = "dispatch"
            /\ callIdx' = 1
            /\ rounds' = rounds + 1
            /\ cbLog' = <<>>
            /\ execLog' = <<>>
            /\ UNCHANGED <<resultBuilder, execResult, execErr, execCause>>
    /\ UNCHANGED <<variant, projectBounds, conversation, contextMessages, ctxDone,
                   response, sendErr, nextId, executes, used, sends, toolResponses,
                   logBeforeSend, hrcErr, bufBeforeFinal>>
    /\ UNCHANGED failedSends
    /\ UNCHANGED notMageVars

\* HandleResponseCalls giving up the batch at the first failing call.
HandleResponseCallsAbort ==
    /\ mpc = "dispatch"
    /\ \E outcome \in IF FindTool(KitTools, response.toolCalls[callIdx].name) # 0
                      THEN ExecOutcomes(variant)
                      ELSE {[err |-> FALSE, value |-> NoValue]} :
          LET tc == response.toolCalls[callIdx]
              a == CallbackArgs(KitTools, tc, outcome)
              st == MageCallback(variant, conversation, resultBuilder,
                                 a.isError, a.id, a.result)
          IN /\ conversation' = st.conversation
             /\ resultBuilder' = st.resultBuilder
             /\ cbLog' = Append(cbLog, a)
             /\ execLog' = Append(execLog, outcome)
             /\ IF callIdx = Len(response.toolCalls) \/ a.isError
                THEN /\ mpc' = "top"
                     /\ callIdx' = 0
                     /\ hrcErr' = ErrNil
                ELSE /\ callIdx' = callIdx + 1
                     /\ UNCHANGED <<mpc, hrcErr>>
    /\ UNCHANGED <<variant, projectBounds, contextMessages, ctxDone, response,
                   sendErr, execResult, execErr, nextId, executes, used, sends,
                   rounds, toolResponses, logBeforeSend, bufBeforeFinal>>
    /\ UNCHANGED <<execCause, failedSends>>
    /\ UNCHANGED notMageVars

\* HandleResponseCalls, one tool call of the response: the scan of the kit,
\* the executor (not called for a name the kit does not hold), the
\* callback; after the last call it returns nil and the loop of Execute goes
\* back to its top.
HandleResponseCalls ==
    /\ mpc = "dispatch"
    /\ \E outcome \in IF FindTool(KitTools, response.toolCalls[callIdx].name) # 0
                      THEN ExecOutcomes(variant)
                      ELSE {[err |-> FALSE, value |-> NoValue]} :
          LET tc == response.toolCalls[callIdx]
              a == CallbackArgs(KitTools, tc, outcome)
              st == MageCallback(variant, conversation, resultBuilder,
                                 a.isError, a.id, a.result)
          IN /\ conversation' = st.conversation
             /\ resultBuilder' = st.resultBuilder
             /\ cbLog' = Append(cbLog, a)
             /\ execLog' = Append(execLog, outcome)
             /\ IF callIdx = Len(response.toolCalls)
                THEN /\ mpc' = "top"
                     /\ callIdx' = 0
                     /\ hrcErr' = ErrNil
                ELSE /\ callIdx' = callIdx + 1
                     /\ UNCHANGED <<mpc, hrcErr>>
    /\ UNCHANGED <<variant, projectBounds, contextMessages, ctxDone, response,
                   sendErr, execResult, execErr, nextId, executes, used, sends,
                   rounds, toolResponses, logBeforeSend, bufBeforeFinal>>
    /\ UNCHANGED <<execCause, failedSends>>
    /\ UNCHANGED notMageVars

MageNext ==
    \/ MageExecute
    \/ MageReset
    \/ MageAddToContext
    \/ MageCancel
    \/ MageLoopTop
    \/ MageSendReturn
    \/ MageInspect
    \/ HandleResponseCalls

-----------------------------------------------------------------------------
(* The top-level agent.  Every request of the agent runs in a goroutine of  *)
(* its own (a task); the number of a task is also the name of its request   *)
(* context and of the cancel function stored in activeRequest (0 is nil).   *)
(* The sections guarded by a.mu are single steps.  The message log of a     *)
(* conversation is not guarded by any lock; the model takes each append and *)
(* each read of it as one step.                                             *)

\* goroutines the agent starts over its life: one for every SendMessage it
\* accepts and one for every tool call the model asks for
MaxTasks == 3
\* ResetConversation calls
MaxResets == 1

Prompt == <<"proompt">>
UserText == <<"message">>

ErrNotStarted == "agent not started"
ErrInProgress == "request already in progress"

\* the unified mage kit has one tool
AgentKitTools == <<"task_mage">>
AgentCallNames == {"task_mage"}

\* executeMageTask returns the answer of the mage or an error
AgentExecOutcomes == {[err |-> FALSE, value |-> StrVal], [err |-> TRUE, value |-> ExecError]}

AgentNameSeqs(n) == UNION {[1..k -> AgentCallNames] : k \in 1..n}

\* what a streaming Conversation.Send of the agent can come back with
AgentOutcomes(first, budget) ==
    {[kind |-> "transport_error", message |-> NoMessage],
     [kind |-> "ok", message |-> TextReply]}
    \cup {[kind |-> "ok", message |-> ToolReply(first, names)] :
             names \in AgentNameSeqs(budget)}

\* the conversation resetConversation builds
FreshConversation == AddSystemMessage(<< >>, Prompt)

Task(pc, kind, convId, calls, idx) ==
    [pc |-> pc, kind |-> kind, conv |-> convId, calls |-> calls, idx |-> idx]

\* a turn is outstanding while a goroutine started for it has not ended
TurnOutstanding == \E t \in 1..Len(tasks) : tasks[t].pc # "exit"

\* a turn is outstanding and neither InterruptCurrentRequest nor
\* ResetConversation has touched it
TurnUndisturbed == TurnOutstanding /\ ~interrupted

NoCall == [err |-> ErrNil, busy |-> FALSE, appended |-> FALSE, started |-> FALSE,
           afterInterrupt |-> FALSE]
NoSend == [log |-> << >>, interrupted |-> FALSE]

AgentInit ==
    /\ running = FALSE
    /\ activeRequest = 0
    /\ agentConv = 1
    /\ convs = <<FreshConversation>>
    /\ cancelled = {}
    /\ tasks = << >>
    /\ nextCallId = 1
    /\ accepted = 0
    /\ resets = 0
    /\ interrupted = FALSE
    /\ lastCall = NoCall
    /\ lastSend = NoSend
    /\ sinceInterrupt = FALSE

\* Start: an agent that is running answers with an error and changes nothing
AgentStart ==
    /\ running' = TRUE
    /\ UNCHANGED <<activeRequest, agentConv, convs, cancelled, tasks, nextCallId,
                   accepted, resets, interrupted, lastCall, lastSend, sinceInterrupt>>
    /\ UNCHANGED notAgentVars

\* InterruptCurrentRequest
AgentInterrupt ==
    /\ IF activeRequest # 0
       THEN /\ cancelled' = cancelled \cup {activeRequest}
            /\ activeRequest' = 0
            /\ interrupted' = TRUE
            /\ sinceInterrupt' = TRUE
       ELSE UNCHANGED <<cancelled, activeRequest, interrupted, sinceInterrupt>>
    /\ UNCHANGED <<running, agentConv, convs, tasks, nextCallId, accepted, resets,
                   lastCall, lastSend>>
    /\ UNCHANGED notAgentVars

\* ResetConversation
AgentReset ==
    /\ resets < MaxResets
    /\ resets' = resets + 1
    /\ IF activeRequest # 0
       THEN /\ cancelled' = cancelled \cup {activeRequest}
            /\ activeRequest' = 0
       ELSE UNCHANGED <<cancelled, activeRequest>>
    /\ convs' = Append(convs, FreshConversation)
    /\ agentConv' = Len(convs) + 1
    /\ interrupted' = TurnOutstanding
    /\ UNCHANGED <<running, tasks, nextCallId, accepted, lastCall, lastSend,
                   sinceInterrupt>>
    /\ UNCHANGED notAgentVars

\* SendMessage, up to the go statement
AgentSendMessage ==
    /\ IF ~running
       THEN /\ lastCall' = [err |-> ErrNotStarted, busy |-> TurnUndisturbed,
                            appended |-> FALSE, started |-> FALSE,
                            afterInterrupt |-> sinceInterrupt]
            /\ UNCHANGED <<activeRequest, convs, tasks, accepted, interrupted>>
       ELSE IF activeRequest # 0
       THEN /\ lastCall' = [err |-> ErrInProgress, busy |-> TurnUndisturbed,
                            appended |-> FALSE, started |-> FALSE,
                            afterInterrupt |-> sinceInterrupt]
            /\ UNCHANGED <<activeRequest, convs, tasks, accepted, interrupted>>
       ELSE /\ accepted + (nextCallId - 1) < MaxTasks
            /\ accepted' = accepted + 1
            /\ activeRequest' = Len(tasks) + 1
            /\ convs' = [convs EXCEPT ![agentConv] = AddUserMessage(@, UserText)]
            /\ tasks' = Append(tasks, Task("send", "initial", 0, << >>, 0))
            /\ lastCall' = [err |-> ErrNil, busy |-> TurnUndisturbed,
                            appended |-> TRUE, started |-> TRUE,
                            afterInterrupt |-> sinceInterrupt]
            /\ UNCHANGED interrupted
    /\ sinceInterrupt' = FALSE
    /\ UNCHANGED <<running, agentConv, cancelled, nextCallId, resets, lastSend>>
    /\ UNCHANGED notAgentVars

\* handleToolCallback, up to the go statement: the new message log
handleToolCallback(messages, isError, id, result) ==
    LET resultStr == IF isError THEN <<"Error: ">> \o Sprintv(result)
                     ELSE Sprintv(result)
    IN  AddToolResult(messages, id, resultStr)

\* the goroutine of handleToolCallback stores its cancel function
TaskBegin(t) ==
    /\ tasks[t].pc = "begin"
    /\ activeRequest' = t
    /\ tasks' = [tasks EXCEPT ![t].pc = "send"]
    /\ UNCHANGED <<running, agentConv, convs, cancelled, nextCallId, accepted, resets,
                   interrupted, lastCall, lastSend, sinceInterrupt>>
    /\ UNCHANGED notAgentVars

\* a.conv.Send is called: the request carries the log as it is now
TaskSend(t) ==
    /\ tasks[t].pc = "send"
    /\ tasks' = [tasks EXCEPT ![t].pc = "inflight", ![t].conv = agentConv]
    /\ lastSend' = [log |-> convs[agentConv], interrupted |-> interrupted]
    /\ UNCHANGED <<running, activeRequest, agentConv, convs, cancelled, nextCallId,
                   accepted, resets, interrupted, lastCall, sinceInterrupt>>
    /\ UNCHANGED notAgentVars

\* tool calls the model may still ask for
AgentBudget == MaxTasks - accepted - (nextCallId - 1)

\* Send returns to the goroutine: an error ends it, a reply without tool
\* calls is reported and ends it, a reply with tool calls is dispatched
TaskReply(t) ==
    /\ tasks[t].pc = "inflight"
    /\ \E outcome \in IF t \in cancelled
                      THEN {[kind |-> "cancelled", message |-> NoMessage]}
                      ELSE AgentOutcomes(nextCallId, AgentBudget) :
          LET r == ConvSend(convs[tasks[t].conv], outcome) IN
          /\ convs' = [convs EXCEPT ![tasks[t].conv] = r.messages]
          /\ nextCallId' = nextCallId + Len(r.message.toolCalls)
          /\ IF r.err = ErrNil /\ Len(r.message.toolCalls) > 0
             THEN tasks' = [tasks EXCEPT ![t].pc = "dispatch",
                                         ![t].calls = r.message.toolCalls,
                                         ![t].idx = 1]
             ELSE tasks' = [tasks EXCEPT ![t].pc = "defer", ![t].conv = 0]
    /\ UNCHANGED <<running, activeRequest, agentConv, cancelled, accepted, resets,
                   interrupted, lastCall, lastSend, sinceInterrupt>>
    /\ UNCHANGED notAgentVars

\* HandleResponseCalls at one tool call: the executor runs, the callback
\* appends the tool result to a.conv and starts the goroutine of the
\* follow-up request
TaskDispatch(t) ==
    /\ tasks[t].pc = "dispatch"
    /\ \E outcome \in AgentExecOutcomes :
          LET call == tasks[t].calls[tasks[t].idx]
              args == CallbackArgs(AgentKitTools, call, outcome)
              last == tasks[t].idx = Len(tasks[t].calls)
              mine == IF last THEN [tasks EXCEPT ![t] = Task("defer", @.kind, 0, << >>, 0)]
                      ELSE [tasks EXCEPT ![t].idx = @ + 1]
          IN  /\ convs' = [convs EXCEPT ![agentConv] =
                              handleToolCallback(@, args.isError, args.id, args.result)]
              /\ tasks' = Append(mine, Task("begin", "followup", 0, << >>, 0))
    /\ UNCHANGED <<running, activeRequest, agentConv, cancelled, nextCallId, accepted,
                   resets, interrupted, lastCall, lastSend, sinceInterrupt>>
    /\ UNCHANGED notAgentVars

\* the deferred function of the goroutine
TaskDefer(t) ==
    /\ tasks[t].pc = "defer"
    /\ activeRequest' = 0
    /\ tasks' = [tasks EXCEPT ![t].pc = "exit"]
    /\ cancelled' = cancelled \ {t}
    /\ interrupted' = (interrupted /\ \E u \in 1..Len(tasks) :
                                          u # t /\ tasks[u].pc # "exit")
    /\ UNCHANGED <<running, agentConv, convs, nextCallId, accepted, resets,
                   lastCall, lastSend, sinceInterrupt>>
    /\ UNCHANGED notAgentVars

AgentBegin == \E t \in 1..Len(tasks) : TaskBegin(t)
AgentSend == \E t \in 1..Len(tasks) : TaskSend(t)
AgentReply == \E t \in 1..Len(tasks) : TaskReply(t)
AgentDispatch == \E t \in 1..Len(tasks) : TaskDispatch(t)
AgentDefer == \E t \in 1..Len(tasks) : TaskDefer(t)

AgentNext ==
    \/ AgentStart
    \/ AgentInterrupt
    \/ AgentReset
    \/ AgentSendMessage
    \/ AgentBegin
    \/ AgentSend
    \/ AgentReply
    \/ AgentDispatch
    \/ AgentDefer

-----------------------------------------------------------------------------
(* One Conversation whose methods are called one at a time by its owner.   *)
(* NewConversation starts the log empty; every call below is one method.   *)

\* messages one Conversation of the model may hold
MaxMessages == 3

Contents == {<<"a">>, <<"b">>}
Items == {<<"text item", "image item">>}
ToolCallIDs == {1, 2}

ConvCall(op, role, content, id) == [op |-> op, role |-> role, content |-> content, id |-> id]
NoConvCall == ConvCall("NewConversation", "none", << >>, 0)

\* NewConversation
ConvInit ==
    /\ convMessages = << >>
    /\ convBefore = << >>
    /\ convCall = NoConvCall

ConvAddSystemMessage ==
    /\ Len(convMessages) < MaxMessages
    /\ \E content \in Contents :
          /\ convMessages' = AddSystemMessage(convMessages, content)
          /\ convCall' = ConvCall("AddSystemMessage", RoleSystem, content, 0)
    /\ convBefore' = convMessages
    /\ UNCHANGED notConvVars

ConvAddUserMessage ==
    /\ Len(convMessages) < MaxMessages
    /\ \E content \in Contents :
          /\ convMessages' = AddUserMessage(convMessages, content)
          /\ convCall' = ConvCall("AddUserMessage", RoleUser, content, 0)
    /\ convBefore' = convMessages
    /\ UNCHANGED notConvVars

ConvAddAssistantMessage ==
    /\ Len(convMessages) < MaxMessages
    /\ \E content \in Contents :
          /\ convMessages' = AddAssistantMessage(convMessages, content)
          /\ convCall' = ConvCall("AddAssistantMessage", RoleAssistant, content, 0)
    /\ convBefore' = convMessages
    /\ UNCHANGED notConvVars

ConvAddComplexUserMessage ==
    /\ Len(convMessages) < MaxMessages
    /\ \E items \in Items :
          /\ convMessages' = AddComplexUserMessage(convMessages, items)
          /\ convCall' = ConvCall("AddComplexUserMessage", RoleUser, items, 0)
    /\ convBefore' = convMessages
    /\ UNCHANGED notConvVars

ConvAddToolResult ==
    /\ Len(convMessages) < MaxMessages
    /\ \E id \in ToolCallIDs, result \in Contents :
          /\ convMessages' = AddToolResult(convMessages, id, result)
          /\ convCall' = ConvCall("AddToolResult", RoleTool, result, id)
    /\ convBefore' = convMessages
    /\ UNCHANGED notConvVars

\* Conversation.Send: the call records the message the provider answered with
\* (NoMessage when the call failed)
ConvSendCall ==
    /\ Len(convMessages) < MaxMessages
    /\ \E outcome \in SendOutcomes(1, 1) :
          LET r == ConvSend(convMessages, outcome) IN
          /\ convMessages' = r.messages
          /\ convCall' = [op |-> "Send", role |-> r.message.role,
                          content |-> r.message, id |-> r.err]
    /\ convBefore' = convMessages
    /\ UNCHANGED notConvVars

ConvNext ==
    \/ ConvAddSystemMessage
    \/ ConvAddUserMessage
    \/ ConvAddAssistantMessage
    \/ ConvAddComplexUserMessage
    \/ ConvAddToolResult
    \/ ConvSendCall

-----------------------------------------------------------------------------
(* One LlmToolKit.  Every kit of the repository is put together by a      *)
(* constructor that chains WithTool and WithCallback on NewKit and hands   *)
(* the kit out; from then on its owner calls GetTools and                  *)
(* HandleResponseCalls only.                                               *)

\* tools registered on one kit
MaxKitTools == 2
\* GetTools calls made on one kit
MaxGetTools == 3
\* tool calls in one response handed to the kit
MaxKitCalls == 2

ToolNames == {"read_file", "write_file"}
\* the names a response may ask for: one a kit may hold, one no kit holds
RequestedNames == {"read_file", "nope"}

ErrNoCallback == "no callback set"

\* tool.GetDefinition(): the declaration handed to the provider
GetDefinition(tool) == [type |-> "function", function |-> [name |-> tool]]

\* the declarations of a list of tools, in order
Definitions(tools) == [i \in 1..Len(tools) |-> GetDefinition(tools[i])]

\* GetTools filling the list again on every call
GetToolsUncached(tools, ironed) == ironed \o Definitions(tools)

\* GetTools: the new x.ironedTools, which is also what is returned
GetTools(tools, ironed) ==
    IF Len(ironed) > 0 THEN ironed ELSE ironed \o Definitions(tools)

Handled(err, calls, executed, callbacks) ==
    [err |-> err, calls |-> calls, executed |-> executed, callbacks |-> callbacks]
NoHandled == Handled(ErrNil, << >>, << >>, << >>)

\* the tool calls of a response whose executor HandleResponseCalls runs
Executed(tools, calls) ==
    SelectSeq(calls, LAMBDA tc : FindTool(tools, tc.name) # 0)

\* HandleResponseCalls handing the error of a failed executor to its caller
HandleCallsReportsToolError(tools, callback, calls, results) ==
    IF ~callback
    THEN Handled(ErrNoCallback, calls, << >>, << >>)
    ELSE Handled(IF \E i \in 1..Len(calls) :
                       FindTool(tools, calls[i].name) # 0 /\ results[i].err
                 THEN "tool failed" ELSE ErrNil,
                 calls, Executed(tools, calls),
                 [i \in 1..Len(calls) |-> CallbackArgs(tools, calls[i], results[i])])

\* HandleResponseCalls, the whole call: the error returned, the tool calls
\* whose executor ran and the callback invocations, in order
HandleCalls(tools, callback, calls, results) ==
    IF ~callback
    THEN Handled(ErrNoCallback, calls, << >>, << >>)
    ELSE Handled(ErrNil, calls, Executed(tools, calls),
                 [i \in 1..Len(calls) |-> CallbackArgs(tools, calls[i], results[i])])

\* NewKit
KitInit ==
    /\ kitTools = << >>
    /\ ironedTools = << >>
    /\ kitCallback = FALSE
    /\ kitPhase = "building"
    /\ kitReturned = << >>
    /\ kitHandled = NoHandled

KitWithTool ==
    /\ kitPhase = "building"
    /\ Len(kitTools) < MaxKitTools
    /\ \E tool \in ToolNames : kitTools' = Append(kitTools, tool)
    /\ UNCHANGED <<ironedTools, kitCallback, kitPhase, kitReturned, kitHandled>>
    /\ UNCHANGED notKitVars

KitWithCallback ==
    /\ kitPhase = "building"
    /\ kitCallback' = TRUE
    /\ UNCHANGED <<kitTools, ironedTools, kitPhase, kitReturned, kitHandled>>
    /\ UNCHANGED notKitVars

\* the constructor returns the kit
KitBuilt ==
    /\ kitPhase = "building"
    /\ kitPhase' = "built"
    /\ UNCHANGED <<kitTools, ironedTools, kitCallback, kitReturned, kitHandled>>
    /\ UNCHANGED notKitVars

KitGetTools ==
    /\ kitPhase = "built"
    /\ Len(kitReturned) < MaxGetTools
    /\ ironedTools' = GetTools(kitTools, ironedTools)
    /\ kitReturned' = Append(kitReturned, ironedTools')
    /\ UNCHANGED <<kitTools, kitCallback, kitPhase, kitHandled>>
    /\ UNCHANGED notKitVars

KitHandleResponseCalls ==
    /\ kitPhase = "built"
    /\ \E n \in 1..MaxKitCalls :
       \E names \in [1..n -> RequestedNames], results \in [1..n -> AgentExecOutcomes] :
          kitHandled' = HandleCalls(kitTools, kitCallback,
                                    ToolReply(1, names).toolCalls, results)
    /\ UNCHANGED <<kitTools, ironedTools, kitCallback, kitPhase, kitReturned>>
    /\ UNCHANGED notKitVars

KitNext ==
    \/ KitWithTool
    \/ KitWithCallback
    \/ KitBuilt
    \/ KitGetTools
    \/ KitHandleResponseCalls

-----------------------------------------------------------------------------
(* The replace_in_file tool of the validated filesystem kit.  A string is a *)
(* sequence of one-character strings; a path is a sequence of pieces, so   *)
(* that a backup name is computed from the path of the target.  A call of  *)
(* the tool is one step: nothing else touches the files while it runs.     *)

\* replace_in_file calls made on one file system
MaxReplaceCalls == 2

\* the project directory holds one file; another file lies outside of it
InsidePath == <<"/proj/", "f.txt">>
OutsidePath == <<"/etc/", "o.txt">>
Projects == {"/proj/"}

InitialContents == {<<"a", "A", "a">>, <<"a", "b">>}
Patterns == {<< >>, <<"a">>, <<"c">>}
Replacements == {<<"x">>}

\* create_backup: true, false, or not given
BackupArgs == {"true", "false", "omitted"}

\* what the file system does to the os.WriteFile calls of one run: all succeed,
\* or the write of the backup or of the target fails, leaving the file as it
\* was or created and truncated
WriteFaults == {"none", "backup", "backup truncated", "target", "target truncated"}

NoPath == << >>

Args(path, pattern, replacement, ignoreCase, createBackup, dryRun) ==
    [file_path |-> path, pattern |-> pattern, replacement |-> replacement,
     ignore_case |-> ignoreCase, create_backup |-> createBackup, dry_run |-> dryRun]
NoArgs == Args(NoPath, << >>, << >>, FALSE, "omitted", FALSE)

NoResult == [kind |-> "none"]
Failed(text) == [kind |-> "error", text |-> text]
\* the loop of the executor never ends: the call does not return
NoReturn == [kind |-> "no return"]

\* validatePath: the path itself when it lies in a project directory
validatePath(projects, path) ==
    IF path # << >> /\ path[1] \in projects
    THEN [err |-> FALSE, path |-> path]
    ELSE [err |-> TRUE, path |-> NoPath]

\* strings.ToLower
ToLower(s) == [i \in 1..Len(s) |-> IF s[i] = "A" THEN "a" ELSE s[i]]

\* strings.Index: the offset of the first occurrence of p in s, or -1
Index(s, p) ==
    LET at == {i \in 0..(Len(s) - Len(p)) : SubSeq(s, i + 1, i + Len(p)) = p}
    IN  IF at = {} THEN -1 ELSE CHOOSE i \in at : \A j \in at : i <= j

\* s[from:]
From(s, from) == SubSeq(s, from + 1, Len(s))

\* strings.Count: non-overlapping occurrences; an empty p counts once before
\* every character and once at the end
RECURSIVE Count(_, _)
Count(s, p) ==
    IF p = << >> THEN Len(s) + 1
    ELSE LET i == Index(s, p) IN
         IF i = -1 THEN 0 ELSE 1 + Count(From(s, i + Len(p)), p)

\* strings.ReplaceAll
RECURSIVE ReplaceAll(_, _, _)
ReplaceAll(s, p, r) ==
    IF p = << >>
    THEN IF s = << >> THEN r ELSE r \o <<Head(s)>> \o ReplaceAll(Tail(s), p, r)
    ELSE LET i == Index(s, p) IN
         IF i = -1 THEN s
         ELSE SubSeq(s, 1, i) \o r \o ReplaceAll(From(s, i + Len(p)), p, r)

Replaced(returns, content, count) ==
    [returns |-> returns, content |-> content, count |-> count]

\* the loop of the case-insensitive replacement, entered with lastIndex, the
\* text built so far and the count.  An iteration that finds the pattern and
\* leaves lastIndex where it was is followed by the same iteration for ever.
RECURSIVE IgnoreCaseLoop(_, _, _, _, _, _)
IgnoreCaseLoop(originalContent, pattern, replacement, lastIndex, result, count) ==
    LET index == Index(From(ToLower(originalContent), lastIndex), ToLower(pattern))
        actualIndex == lastIndex + index
    IN  IF index = -1
        THEN Replaced(TRUE, result \o From(originalContent, lastIndex), count)
        ELSE IF actualIndex + Len(pattern) = lastIndex
        THEN Replaced(FALSE, << >>, count)
        ELSE IgnoreCaseLoop(originalContent, pattern, replacement,
                            actualIndex + Len(pattern),
                            result \o SubSeq(originalContent, lastIndex + 1, actualIndex)
                                   \o replacement,
                            count + 1)

\* replacedContent and replacementCount of the plain-string branches
Replace(originalContent, pattern, replacement, ignoreCase) ==
    IF ignoreCase
    THEN IgnoreCaseLoop(originalContent, pattern, replacement, 0, << >>, 0)
    ELSE Replaced(TRUE, ReplaceAll(originalContent, pattern, replacement),
                  Count(originalContent, pattern))

\* validPath + ".bak", then fmt.Sprintf("%s.bak%d", validPath, i)
Digits == <<"1", "2", "3", "4", "5", "6", "7", "8", "9">>
BackupName(validPath, i) ==
    IF i = 0 THEN validPath \o <<".bak">> ELSE validPath \o <<".bak", Digits[i]>>

\* the backup name that overwrites the first backup whatever exists
BackupPathFixed(fs, validPath) == BackupName(validPath, 0)

\* the loop over os.Stat: the first backup name that does not exist
BackupPath(fs, validPath) ==
    LET free == {i \in 0..Cardinality(DOMAIN fs) : BackupName(validPath, i) \notin DOMAIN fs}
    IN  BackupName(validPath, CHOOSE i \in free : \A j \in free : i <= j)

\* os.WriteFile when it succeeds
WriteFile(fs, path, data) ==
    [p \in DOMAIN fs \cup {path} |-> IF p = path THEN data ELSE fs[p]]

\* os.WriteFile when it fails: the file is as it was, or exists and is empty
WriteFileFails(fs, path, truncated) ==
    IF truncated THEN WriteFile(fs, path, << >>) ELSE fs

\* os.Rename
Rename(fs, old, new) ==
    [p \in (DOMAIN fs \ {old}) \cup {new} |-> IF p = new THEN fs[old] ELSE fs[p]]

Outcome(fs, result) == [files |-> fs, result |-> result]

\* the executor of replace_in_file: the file system it leaves and its result
ReplaceInFile(fs, args, fault) ==
    LET createBackup == args.create_backup # "false"
        valid == validatePath(Projects, args.file_path)
        validPath == valid.path
        content == fs[validPath]
        r == Replace(content, args.pattern, args.replacement, args.ignore_case)
        backupPath == IF createBackup THEN BackupPath(fs, validPath) ELSE NoPath
        withBackup == IF createBackup THEN WriteFile(fs, backupPath, content) ELSE fs
    IN  IF valid.err THEN Outcome(fs, Failed("path outside project bounds"))
        ELSE IF validPath \notin DOMAIN fs THEN Outcome(fs, Failed("failed to read file"))
        ELSE IF ~r.returns THEN Outcome(fs, NoReturn)
        ELSE IF args.dry_run
        THEN Outcome(fs, [kind |-> "dry_run", matches_found |-> r.count,
                          would_backup |-> createBackup,
                          size_before |-> Len(content), size_after |-> Len(r.content)])
        ELSE IF r.count = 0
        THEN Outcome(fs, [kind |-> "no_matches", matches_found |-> 0])
        ELSE IF createBackup /\ fault \in {"backup", "backup truncated"}
        THEN Outcome(WriteFileFails(fs, backupPath, fault = "backup truncated"),
                     Failed("failed to create backup"))
        ELSE IF fault \in {"target", "target truncated"}
        THEN LET broken == WriteFileFails(withBackup, validPath, fault = "target truncated")
             IN  Outcome(IF backupPath # NoPath THEN Rename(broken, backupPath, validPath)
                         ELSE broken,
                         Failed("failed to write file"))
        ELSE Outcome(WriteFile(withBackup, validPath, r.content),
                     [kind |-> "replaced", replacements |-> r.count,
                      backup_path |-> backupPath,
                      size_before |-> Len(content), size_after |-> Len(r.content)])

FileInit ==
    /\ files \in {[p \in {InsidePath, OutsidePath} |->
                      IF p = InsidePath THEN c ELSE <<"b">>] : c \in InitialContents}
    /\ replCalls = 0
    /\ filesBefore = files
    /\ replArgs = NoArgs
    /\ replResult = NoResult

\* a process that never calls the tool
FileIdle ==
    /\ FileInit
    /\ files[InsidePath] = <<"a", "b">>

\* one call of the tool, made once the call before it has returned
FileReplaceInFile ==
    /\ replCalls < MaxReplaceCalls
    /\ replResult # NoReturn
    /\ replCalls' = replCalls + 1
    /\ \E path \in {InsidePath, OutsidePath}, pattern \in Patterns,
          replacement \in Replacements, ignoreCase \in BOOLEAN,
          createBackup \in BackupArgs, dryRun \in BOOLEAN, fault \in WriteFaults :
          LET args == Args(path, pattern, replacement, ignoreCase, createBackup, dryRun)
              out == ReplaceInFile(files, args, fault)
          IN  /\ files' = out.files
              /\ replResult' = out.result
              /\ replArgs' = args
    /\ filesBefore' = files
    /\ UNCHANGED notFileVars

FileNext == FileReplaceInFile

-----------------------------------------------------------------------------
(* The grep_file tool of the validated filesystem kit.  The content of a    *)
(* file is a sequence of one-character strings, "\n" among them; the tool   *)
(* reads it line by line through a bufio.Scanner, and one iteration of that *)
(* loop is one step.  The patterns are literal (no regular-expression       *)
(* metacharacter), for both matchers.                                       *)

\* the limit that replaces a max_matches that is absent, zero or negative
DefaultMaxMatches == 100

\* lines of the longest file of the model: one more than the default limit
MaxGrepLines == 101

MissingPath == <<"/proj/", "none.txt">>

\* a file of n lines "a", each ended by a newline
LongContent(n) == [i \in 1..(2 * n) |-> IF i % 2 = 1 THEN "a" ELSE "\n"]

GrepContents ==
    {<<"a", "\n", "A", "b", "\n", "b", "\n", "a">>,
     <<"b", "A", "\n", "\n", "a", "b", "\n">>,
     LongContent(DefaultMaxMatches),
     LongContent(MaxGrepLines)}

GrepPatterns == {<< >>, <<"a">>, <<"A">>, <<"A", "b">>}

\* max_matches and context_lines as decoded: 0 when the argument is absent
MaxMatchesArgs == {-1, 0, 1, 2}
ContextLinesArgs == {-1, 1}

GrepArgs(path, pattern, useRegex, ignoreCase, contextLines, maxMatches) ==
    [file_path |-> path, pattern |-> pattern, use_regex |-> useRegex,
     ignore_case |-> ignoreCase, context_lines |-> contextLines,
     max_matches |-> maxMatches]
NoGrepArgs == GrepArgs(NoPath, << >>, FALSE, FALSE, 0, 0)

\* strings.Contains
Contains(s, p) == Index(s, p) # -1

\* regexp.MatchString of a literal pattern, with the flag (?i) or without it
MatchString(regexPattern, foldCase, line) ==
    IF foldCase THEN Contains(ToLower(line), ToLower(regexPattern))
    ELSE Contains(line, regexPattern)

\* the matcher built from the arguments
Matcher(args, line) ==
    IF args.use_regex
    THEN MatchString(args.pattern, args.ignore_case, line)
    ELSE LET searchPattern == IF args.ignore_case THEN ToLower(args.pattern)
                              ELSE args.pattern
             lineToCheck == IF args.ignore_case THEN ToLower(line) ELSE line
         IN  Contains(lineToCheck, searchPattern)

Match(lineNum, line) ==
    [line_number |-> lineNum, line |-> line, index |-> lineNum - 1]

\* the body of the first pass that keeps every matching line
KeptUnlimited(matches, args, lineNum, line) ==
    IF Matcher(args, line) THEN Append(matches, Match(lineNum, line)) ELSE matches

\* the body of the first pass: the matches after the line numbered lineNum
Kept(matches, args, lineNum, line) ==
    IF Matcher(args, line) /\ Len(matches) < args.max_matches
    THEN Append(matches, Match(lineNum, line))
    ELSE matches

\* fmt.Sprintf("%d: %s", j+1, allLines[j])
ContextLine(lines, j) == [number |-> j + 1, text |-> lines[j + 1]]

\* a match with its context, the internal index removed
WithContext(lines, match, contextLines) ==
    LET matchIndex == match.index
        before == {j \in (matchIndex - contextLines)..(matchIndex - 1) : j >= 0}
        behind == {j \in (matchIndex + 1)..(matchIndex + contextLines) :
                      j < Len(lines)}
        Listed(js) == [k \in 1..Cardinality(js) |->
                          ContextLine(lines,
                              CHOOSE j \in js : Cardinality({h \in js : h < j}) = k - 1)]
    IN  [line_number |-> match.line_number, line |-> match.line,
         context_before |-> Listed(before), context_after |-> Listed(behind)]

NoWarning == [present |-> FALSE, limit |-> 0]
\* fmt.Sprintf("Results limited to %d matches", args.MaxMatches)
LimitWarning(maxMatches) == [present |-> TRUE, limit |-> maxMatches]

\* the defaults set before anything else
WithDefaults(args) ==
    [args EXCEPT !.max_matches = IF @ <= 0 THEN DefaultMaxMatches ELSE @,
                 !.context_lines = IF @ < 0 THEN 0 ELSE @]

\* the result built after the first pass
GrepResult(validPath, args, lines, matches) ==
    IF Len(matches) = 0
    THEN [kind |-> "no_matches", file_path |-> validPath,
          pattern |-> args.pattern, matches |-> << >>]
    ELSE [kind |-> "matches", file_path |-> validPath,
          pattern |-> args.pattern, total_matches |-> Len(matches),
          matches |-> IF args.context_lines > 0
                      THEN [i \in 1..Len(matches) |->
                               WithContext(lines, matches[i], args.context_lines)]
                      ELSE matches,
          warning |-> IF Len(matches) = args.max_matches
                      THEN LimitWarning(args.max_matches)
                      ELSE NoWarning]

GrepInit ==
    /\ grepFiles \in {[p \in {InsidePath, OutsidePath} |->
                          IF p = InsidePath THEN c ELSE <<"a">>] : c \in GrepContents}
    /\ gpc = "idle"
    /\ grepGiven = NoGrepArgs
    /\ grepArgs = NoGrepArgs
    /\ grepPos = 0
    /\ allLines = << >>
    /\ grepMatches = << >>
    /\ grepResult = NoResult

\* a process that never calls the tool
GrepIdle ==
    /\ GrepInit
    /\ grepFiles[InsidePath] = LongContent(DefaultMaxMatches)

\* the call of the tool up to the first pass: defaults, validatePath, os.Open
GrepCall ==
    /\ gpc \in {"idle", "returned"}
    /\ \E path \in {InsidePath, OutsidePath, MissingPath}, pattern \in GrepPatterns,
          useRegex \in BOOLEAN, ignoreCase \in BOOLEAN,
          contextLines \in ContextLinesArgs, maxMatches \in MaxMatchesArgs :
          LET given == GrepArgs(path, pattern, useRegex, ignoreCase, contextLines,
                                maxMatches)
              valid == validatePath(Projects, path)
          IN  /\ grepGiven' = given
              /\ grepArgs' = WithDefaults(given)
              /\ IF valid.err
                 THEN /\ grepResult' = Failed("path outside project bounds")
                      /\ gpc' = "returned"
                 ELSE IF valid.path \notin DOMAIN grepFiles
                 THEN /\ grepResult' = Failed("failed to open file")
                      /\ gpc' = "returned"
                 ELSE /\ grepResult' = NoResult
                      /\ gpc' = "scan"
    /\ grepPos' = 0
    /\ allLines' = << >>
    /\ grepMatches' = << >>
    /\ UNCHANGED grepFiles
    /\ UNCHANGED notGrepVars

\* one iteration of the first pass: scanner.Scan() yields the text up to the
\* next newline, or what is left of the file when no newline follows
GrepScan ==
    /\ gpc = "scan"
    /\ grepPos < Len(grepFiles[grepArgs.file_path])
    /\ LET rest == From(grepFiles[grepArgs.file_path], grepPos)
           i == Index(rest, <<"\n">>)
           line == IF i = -1 THEN rest ELSE SubSeq(rest, 1, i)
           lineNum == Len(allLines) + 1
       IN  /\ grepPos' = IF i = -1 THEN grepPos + Len(rest) ELSE grepPos + i + 1
           /\ allLines' = Append(allLines, line)
           /\ grepMatches' = Kept(grepMatches, grepArgs, lineNum, line)
    /\ UNCHANGED <<grepFiles, gpc, grepGiven, grepArgs, grepResult>>
    /\ UNCHANGED notGrepVars

\* the scanner is at the end of the file: the result is built and returned
GrepReturn ==
    /\ gpc = "scan"
    /\ grepPos = Len(grepFiles[grepArgs.file_path])
    /\ grepResult' = GrepResult(grepArgs.file_path, grepArgs, allLines, grepMatches)
    /\ gpc' = "returned"
    /\ UNCHANGED <<grepFiles, grepGiven, grepArgs, grepPos, allLines, grepMatches>>
    /\ UNCHANGED notGrepVars

GrepNext ==
    \/ GrepCall
    \/ GrepScan
    \/ GrepReturn

-----------------------------------------------------------------------------

(* The loop of Execute on its own.  The message log, the result buffer and  *)
(* the texts are left out, so that a model which asks for tools on every    *)
(* turn can be followed for as many rounds as it likes; the rounds are      *)
(* counted up to MaxLoopRounds and no further.                              *)

MaxLoopRounds == 3

LoopModels == {"tools", "free"}
LoopRunning == {"top", "sending", "inspect", "dispatch"}

\* what one Conversation.Send can return: a failure, a reply without tool
\* calls (a string or not), a reply with tool calls
LoopReply(kind, calls) == [kind |-> kind, calls |-> calls]
LoopReplies(model, ctxCancelled) ==
    IF ctxCancelled THEN {LoopReply("fail", 0)}
    ELSE {LoopReply("tools", n) : n \in 1..MaxToolCalls}
         \cup IF model = "tools" THEN {}
              ELSE {LoopReply("fail", 0), LoopReply("text", 0), LoopReply("notstring", 0)}

LoopInit ==
    /\ loopModel \in LoopModels
    /\ lpc = "idle"
    /\ loopCtxDone = FALSE
    /\ loopResp = "none"
    /\ loopCalls = 0
    /\ loopCallIdx = 0
    /\ loopErr = ErrNil
    /\ loopRounds = 0

\* no Execute of interest
LoopIdle ==
    /\ LoopInit
    /\ loopModel = "free"

\* Execute up to the loop; the caller may pass a ctx that is cancelled already
LoopExecute ==
    /\ lpc \in {"idle", "done"}
    /\ lpc' = "top"
    /\ loopCtxDone' \in BOOLEAN
    /\ loopResp' = "none"
    /\ loopCalls' = 0
    /\ loopCallIdx' = 0
    /\ loopErr' = ErrNil
    /\ loopRounds' = 0
    /\ UNCHANGED loopModel
    /\ UNCHANGED notLoopVars

\* the caller's context is cancelled, or its deadline passes
LoopCancel ==
    /\ lpc \in LoopRunning
    /\ ~loopCtxDone
    /\ loopCtxDone' = TRUE
    /\ UNCHANGED <<loopModel, lpc, loopResp, loopCalls, loopCallIdx, loopErr, loopRounds>>
    /\ UNCHANGED notLoopVars

\* the top of the loop without the check of ctx.Done
LoopTopUnchecked ==
    /\ lpc = "top"
    /\ lpc' = "sending"
    /\ UNCHANGED <<loopModel, loopCtxDone, loopResp, loopCalls, loopCallIdx, loopErr,
                   loopRounds>>
    /\ UNCHANGED notLoopVars

\* top of the loop: the non-blocking check of ctx.Done, then the call of
\* Conversation.Send
LoopTop ==
    /\ lpc = "top"
    /\ IF loopCtxDone
       THEN lpc' = "done" /\ loopErr' = ErrCancelled
       ELSE lpc' = "sending" /\ UNCHANGED loopErr
    /\ UNCHANGED <<loopModel, loopCtxDone, loopResp, loopCalls, loopCallIdx, loopRounds>>
    /\ UNCHANGED notLoopVars

\* Conversation.Send returns.  A request under a cancelled context fails.
LoopSendReturn ==
    /\ lpc = "sending"
    /\ \E r \in LoopReplies(loopModel, loopCtxDone) :
          /\ loopResp' = r.kind
          /\ loopCalls' = r.calls
    /\ lpc' = "inspect"
    /\ UNCHANGED <<loopModel, loopCtxDone, loopCallIdx, loopErr, loopRounds>>
    /\ UNCHANGED notLoopVars

\* what Execute does with the return of Send
LoopInspect ==
    /\ lpc = "inspect"
    /\ IF loopResp = "fail"
       THEN /\ lpc' = "done"
            /\ loopErr' = IF loopCtxDone THEN ErrCancelled ELSE ErrFailedResponse
            /\ UNCHANGED <<loopCallIdx, loopRounds>>
       ELSE IF loopCalls = 0
       THEN /\ lpc' = "done"
            /\ loopErr' = IF loopResp = "notstring" THEN ErrNotString ELSE ErrNil
            /\ UNCHANGED <<loopCallIdx, loopRounds>>
       ELSE /\ lpc' = "dispatch"
            /\ loopCallIdx' = 1
            /\ loopRounds' = IF loopRounds < MaxLoopRounds THEN loopRounds + 1
                             ELSE loopRounds
            /\ UNCHANGED loopErr
    /\ UNCHANGED <<loopModel, loopCtxDone, loopResp, loopCalls>>
    /\ UNCHANGED notLoopVars

\* HandleResponseCalls, one tool call of the response: its executor returns;
\* after the last call the loop goes back to its top
LoopHandleResponseCalls ==
    /\ lpc = "dispatch"
    /\ IF loopCallIdx = loopCalls
       THEN lpc' = "top" /\ loopCallIdx' = 0
       ELSE loopCallIdx' = loopCallIdx + 1 /\ UNCHANGED lpc
    /\ UNCHANGED <<loopModel, loopCtxDone, loopResp, loopCalls, loopErr, loopRounds>>
    /\ UNCHANGED notLoopVars

LoopNext ==
    \/ LoopExecute
    \/ LoopCancel
    \/ LoopTop
    \/ LoopSendReturn
    \/ LoopInspect
    \/ LoopHandleResponseCalls

-----------------------------------------------------------------------------
(* The turns of the agent as its Observer sees them.  The message log is    *)
(* left out and a goroutine that has ended gives its slot to the next one,  *)
(* so that a model may go on asking for tools for as long as it likes.  A   *)
(* slot holds one request goroutine: that of SendMessage or that of         *)
(* handleToolCallback.                                                      *)

\* request goroutines alive at a time
MaxTurnSlots == 3

TurnSlots == 1..MaxTurnSlots
Slot(pc, ctxDone_, left) == [pc |-> pc, cancelled |-> ctxDone_, left |-> left]
FreeSlot == Slot("free", FALSE, 0)

Note(kind, afterCancel) == [kind |-> kind, afterCancel |-> afterCancel]
NoNote == Note("none", FALSE)

FreeSlots(slots) == {k \in TurnSlots : slots[k].pc = "free"}
RECURSIVE SlotsOwed(_, _)
\* the follow-up goroutines the dispatching goroutines have yet to start
SlotsOwed(slots, k) ==
    IF k = 0 THEN 0 ELSE slots[k].left + SlotsOwed(slots, k - 1)
\* slots nobody has a claim on
SlotsSpare(slots) == Cardinality(FreeSlots(slots)) - SlotsOwed(slots, MaxTurnSlots)
FirstFree(slots) == CHOOSE k \in FreeSlots(slots) : \A j \in FreeSlots(slots) : k <= j

\* what Conversation.Send returns to a request goroutine: under a cancelled
\* ctx the error of the ctx; otherwise a text, a failure, or tool calls (as
\* many as there are spare slots for their follow-up requests)
TurnReplies(slots, k) ==
    IF slots[k].cancelled THEN {[kind |-> "cancelled", calls |-> 0]}
    ELSE {[kind |-> "text", calls |-> 0], [kind |-> "fail", calls |-> 0]}
         \cup {[kind |-> "tools", calls |-> n] :
                  n \in {m \in 1..MaxToolCalls : m <= SlotsSpare(slots)}}

TurnInit ==
    /\ turnSlots = [k \in TurnSlots |-> FreeSlot]
    /\ turnHandle = 0
    /\ turnAwaiting = FALSE
    /\ turnNote = NoNote
    /\ turnErr = ErrNil

\* an agent nobody talks to
TurnIdle == TurnInit

\* SendMessage of a started agent, up to the go statement
TurnSendMessage ==
    /\ IF turnHandle # 0
       THEN /\ turnErr' = ErrInProgress
            /\ UNCHANGED <<turnSlots, turnHandle, turnAwaiting>>
       ELSE /\ SlotsSpare(turnSlots) >= 1
            /\ LET k == FirstFree(turnSlots) IN
                  /\ turnSlots' = [turnSlots EXCEPT ![k] = Slot("inflight", FALSE, 0)]
                  /\ turnHandle' = k
            /\ turnAwaiting' = TRUE
            /\ turnErr' = ErrNil
    /\ UNCHANGED turnNote
    /\ UNCHANGED notTurnVars

\* InterruptCurrentRequest
TurnInterrupt ==
    /\ turnHandle # 0
    /\ turnSlots' = [turnSlots EXCEPT ![turnHandle].cancelled = TRUE]
    /\ turnHandle' = 0
    /\ UNCHANGED <<turnAwaiting, turnNote, turnErr>>
    /\ UNCHANGED notTurnVars

\* the goroutine of handleToolCallback makes its ctx and stores the cancel
\* function
TurnBegin(k) ==
    /\ turnSlots[k].pc = "begin"
    /\ turnSlots' = [turnSlots EXCEPT ![k].pc = "inflight"]
    /\ turnHandle' = k
    /\ UNCHANGED <<turnAwaiting, turnNote, turnErr>>
    /\ UNCHANGED notTurnVars

\* the request ends with no word to the Observer when its ctx is cancelled
TurnReplySilentWhenCancelled(k) ==
    /\ turnSlots[k].pc = "inflight"
    /\ \E r \in TurnReplies(turnSlots, k) :
          CASE r.kind = "cancelled" ->
                  /\ turnSlots' = [turnSlots EXCEPT ![k].pc = "defer"]
                  /\ UNCHANGED <<turnAwaiting, turnNote>>
            [] r.kind = "fail" ->
                  /\ turnSlots' = [turnSlots EXCEPT ![k].pc = "defer"]
                  /\ turnAwaiting' = FALSE
                  /\ turnNote' = Note("error", FALSE)
            [] r.kind = "text" ->
                  /\ turnSlots' = [turnSlots EXCEPT ![k].pc = "defer"]
                  /\ turnAwaiting' = FALSE
                  /\ turnNote' = Note("complete", FALSE)
            [] OTHER ->
                  /\ turnSlots' = [turnSlots EXCEPT ![k].pc = "dispatch",
                                                    ![k].left = r.calls]
                  /\ UNCHANGED <<turnAwaiting, turnNote>>
    /\ UNCHANGED <<turnHandle, turnErr>>
    /\ UNCHANGED notTurnVars

\* the request of a goroutine ends.  handleStreamingResponse puts an error
\* chunk on the sink on every failure, the cancellation of ctx included, and
\* handleStreamForRequest passes it to OnError; the goroutine itself calls
\* OnError for a failure under a live ctx, OnComplete for a reply without
\* tool calls, and HandleResponseCalls for one with tool calls.
TurnReply(k) ==
    /\ turnSlots[k].pc = "inflight"
    /\ \E r \in TurnReplies(turnSlots, k) :
          CASE r.kind = "cancelled" ->
                  /\ turnSlots' = [turnSlots EXCEPT ![k].pc = "defer"]
                  /\ turnAwaiting' = FALSE
                  /\ turnNote' = Note("error", TRUE)
            [] r.kind = "fail" ->
                  /\ turnSlots' = [turnSlots EXCEPT ![k].pc = "defer"]
                  /\ turnAwaiting' = FALSE
                  /\ turnNote' = Note("error", FALSE)
            [] r.kind = "text" ->
                  /\ turnSlots' = [turnSlots EXCEPT ![k].pc = "defer"]
                  /\ turnAwaiting' = FALSE
                  /\ turnNote' = Note("complete", FALSE)
            [] OTHER ->
                  /\ turnSlots' = [turnSlots EXCEPT ![k].pc = "dispatch",
                                                    ![k].left = r.calls]
                  /\ UNCHANGED <<turnAwaiting, turnNote>>
    /\ UNCHANGED <<turnHandle, turnErr>>
    /\ UNCHANGED notTurnVars

\* HandleResponseCalls at one tool call: the executor returns, the callback
\* starts the goroutine of the follow-up request
TurnDispatch(k) ==
    /\ turnSlots[k].pc = "dispatch"
    /\ LET j == FirstFree(turnSlots)
           mine == IF turnSlots[k].left = 1
                   THEN Slot("defer", turnSlots[k].cancelled, 0)
                   ELSE Slot("dispatch", turnSlots[k].cancelled, turnSlots[k].left - 1)
       IN  turnSlots' = [turnSlots EXCEPT ![k] = mine, ![j] = Slot("begin", FALSE, 0)]
    /\ UNCHANGED <<turnHandle, turnAwaiting, turnNote, turnErr>>
    /\ UNCHANGED notTurnVars

\* the deferred function of the goroutine, and its end
TurnDefer(k) ==
    /\ turnSlots[k].pc = "defer"
    /\ turnHandle' = 0
    /\ turnSlots' = [turnSlots EXCEPT ![k] = FreeSlot]
    /\ UNCHANGED <<turnAwaiting, turnNote, turnErr>>
    /\ UNCHANGED notTurnVars

TurnNext ==
    \/ TurnSendMessage
    \/ TurnInterrupt
    \/ \E k \in TurnSlots : TurnBegin(k)
    \/ \E k \in TurnSlots : TurnReply(k)
    \/ \E k \in TurnSlots : TurnDispatch(k)
    \/ \E k \in TurnSlots : TurnDefer(k)

-----------------------------------------------------------------------------
(* Specifications: one per component, the other components at rest *)

InitMage == MageInit /\ RetryIdle /\ StreamIdle /\ AgentInit /\ ConvInit /\ KitInit /\ FileIdle /\ GrepIdle /\ LoopIdle /\ TurnIdle
SpecMage == InitMage /\ [][MageNext]_vars

InitRetry == RetryInit /\ MageIdle /\ StreamIdle /\ AgentInit /\ ConvInit /\ KitInit /\ FileIdle /\ GrepIdle /\ LoopIdle /\ TurnIdle
SpecRetry == InitRetry /\ [][RetryNext]_vars

InitStream == StreamInit /\ MageIdle /\ RetryIdle /\ AgentInit /\ ConvInit /\ KitInit /\ FileIdle /\ GrepIdle /\ LoopIdle /\ TurnIdle
SpecStream == InitStream /\ [][StreamNext]_vars

\* the goroutine of handleStreamingResponse is scheduled whenever it can take a
\* step of its own: the retried request returns, the scanner yields a line or
\* ends, a send finds room in the buffer. Nothing obliges the consumer of the
\* sink to receive
FairSpecStream ==
    /\ SpecStream
    /\ WF_vars(StreamStart)
    /\ WF_vars(StreamLine)
    /\ WF_vars(StreamEnd)
    /\ WF_vars(StreamSendBuffered)

InitAgent == AgentInit /\ MageIdle /\ RetryIdle /\ StreamIdle /\ ConvInit /\ KitInit /\ FileIdle /\ GrepIdle /\ LoopIdle /\ TurnIdle
SpecAgent == InitAgent /\ [][AgentNext]_vars

InitConv == ConvInit /\ MageIdle /\ RetryIdle /\ StreamIdle /\ AgentInit /\ KitInit /\ FileIdle /\ GrepIdle /\ LoopIdle /\ TurnIdle
SpecConversation == InitConv /\ [][ConvNext]_vars

InitKit == KitInit /\ MageIdle /\ RetryIdle /\ StreamIdle /\ AgentInit /\ ConvInit /\ FileIdle /\ GrepIdle /\ LoopIdle /\ TurnIdle
SpecKit == InitKit /\ [][KitNext]_vars

InitFile == FileInit /\ MageIdle /\ RetryIdle /\ StreamIdle /\ AgentInit /\ ConvInit /\ KitInit /\ GrepIdle /\ LoopIdle /\ TurnIdle
SpecFile == InitFile /\ [][FileNext]_vars

InitGrep == GrepInit /\ MageIdle /\ RetryIdle /\ StreamIdle /\ AgentInit /\ ConvInit /\ KitInit /\ FileIdle /\ LoopIdle /\ TurnIdle
SpecGrep == InitGrep /\ [][GrepNext]_vars

InitLoop == LoopInit /\ MageIdle /\ RetryIdle /\ StreamIdle /\ AgentInit /\ ConvInit /\ KitInit /\ FileIdle /\ GrepIdle /\ TurnIdle
SpecLoop == InitLoop /\ [][LoopNext]_vars

\* Execute is one goroutine, scheduled whenever it can take a step; the model
\* answers every request or the request fails, and every tool executor
\* returns.  Nothing obliges the caller to call Execute or to cancel ctx.
FairSpecLoop ==
    /\ SpecLoop
    /\ WF_vars(LoopTop)
    /\ WF_vars(LoopSendReturn)
    /\ WF_vars(LoopInspect)
    /\ WF_vars(LoopHandleResponseCalls)

InitTurn == TurnInit /\ MageIdle /\ RetryIdle /\ StreamIdle /\ AgentInit /\ ConvInit /\ KitInit /\ FileIdle /\ GrepIdle /\ LoopIdle
SpecTurn == InitTurn /\ [][TurnNext]_vars

\* every request goroutine is scheduled whenever it can take a step; the
\* model answers every request or the request fails, and every tool executor
\* returns.  Nothing obliges the user to send a message or to interrupt.
FairSpecTurn ==
    /\ SpecTurn
    /\ \A k \in TurnSlots :
          /\ WF_vars(TurnBegin(k))
          /\ WF_vars(TurnReply(k))
          /\ WF_vars(TurnDispatch(k))
          /\ WF_vars(TurnDefer(k))

-----------------------------------------------------------------------------
(* Properties of the mage Execute loop, the kit dispatch and                *)
(* Conversation.Send, checked under SpecMage                                *)

\* HandleResponseCalls has returned and the next Send has not been issued
AfterDispatch == mpc = "top" /\ rounds > 0

ToolMessagesFor(messages, id) ==
    {j \in 1..Len(messages) :
        messages[j].role = RoleTool /\ messages[j].toolCallID = id}

\* C1: after the tool calls of a response have been dispatched and before the
\* next Send, the conversation holds one tool-role message for each of the
\* tool-call ids of the response, failed and unknown calls included.
C1_ToolResultForEveryCall ==
    AfterDispatch =>
        \A i \in 1..Len(response.toolCalls) :
            Cardinality(ToolMessagesFor(conversation, response.toolCalls[i].id)) = 1

\* The model's reply to the last request was a plain text, so that the model
\* answered toolResponses replies with tool calls and then one text.
ScriptedRunDone ==
    /\ mpc = "done"
    /\ sendErr = ErrNil
    /\ response.role = RoleAssistant
    /\ Len(response.toolCalls) = 0
    /\ response.isString

\* C7: for a model that answers k replies with tool calls and then one plain
\* text, Execute has issued k+1 Sends and made k calls of
\* HandleResponseCalls when it returns, and it returns no error.
C7_SendsAndRounds ==
    ScriptedRunDone =>
        /\ execErr = ErrNil
        /\ sends = toolResponses + 1
        /\ rounds = toolResponses

C7_Witness == ScriptedRunDone /\ toolResponses = 1 /\ sends = 2 /\ rounds = 1

\* C8 as stated: after one or more dispatch rounds the returned string is the
\* plain-text content of the final response.
C8_ResultIsFinalText ==
    (mpc = "done" /\ execErr = ErrNil /\ rounds >= 1) => execResult = response.content

\* C8 as amended: the returned string is what the result buffer held when the
\* final response arrived, followed by the plain-text content of that
\* response.
C8_ResultIsBufferThenFinalText ==
    (mpc = "done" /\ execErr = ErrNil /\ rounds >= 1) =>
        /\ execResult = bufBeforeFinal \o response.content
        /\ (bufBeforeFinal = <<>> <=> execResult = response.content)

C8_Witness ==
    /\ mpc = "done" /\ execErr = ErrNil /\ rounds >= 1
    /\ bufBeforeFinal # <<>>
    /\ execResult # response.content

Registered(name) == \E j \in 1..Len(KitTools) : KitTools[j] = name

\* C9: HandleResponseCalls invokes the callback once per tool call, in the
\* order of the calls and with the id of each; isError is false exactly when
\* the name is registered and the executor returned no error; an unknown
\* name gets the not-found error; a failing call does not stop the batch and
\* HandleResponseCalls returns nil.
C9_CallbackPerCall ==
    /\ mpc = "dispatch" => Len(cbLog) = callIdx - 1
    /\ AfterDispatch => (Len(cbLog) = Len(response.toolCalls) /\ hrcErr = ErrNil)
    /\ (mpc = "dispatch" \/ AfterDispatch) =>
          \A i \in 1..Len(cbLog) :
             LET tc == response.toolCalls[i] IN
             /\ cbLog[i].id = tc.id
             /\ cbLog[i].isError = ~(Registered(tc.name) /\ ~execLog[i].err)
             /\ (Registered(tc.name) => cbLog[i].result = execLog[i].value)
             /\ (~Registered(tc.name) => cbLog[i].result = NotFoundError(tc.name))

C9_Witness ==
    /\ AfterDispatch
    /\ Len(cbLog) = 2
    /\ cbLog[1].isError
    /\ ~cbLog[2].isError

\* C10: Conversation.Send appends the returned assistant message, and only
\* it, to the end of the log when it succeeds, and leaves the log as it was
\* when it returns an error.
C10_SendAppendsOneOrNothing ==
    mpc = "inspect" =>
        IF sendErr = ErrNil
        THEN /\ response.role = RoleAssistant
             /\ conversation = Append(logBeforeSend, response)
        ELSE conversation = logBeforeSend

C10_Witness ==
    /\ mpc = "inspect"
    /\ sendErr = ErrNil
    /\ Len(response.toolCalls) > 0
    /\ Len(conversation) = Len(logBeforeSend) + 1


\* C19: at every entry to the Sending step of Execute, before the first Send
\* and after each round of tool dispatch, a ctx that is already cancelled makes
\* Execute return "execution cancelled" with the empty string; no
\* Conversation.Send is issued for that step and the log is left as it is.
C19_CancelledAtLoopTopSendsNothing ==
    [][(mpc = "top" /\ ctxDone) =>
          /\ mpc' = "done"
          /\ execErr' = ErrCancelled
          /\ execResult' = <<>>
          /\ sends' = sends
          /\ conversation' = conversation]_vars

\* ctx was cancelled during a round of tool dispatch that followed a successful
\* Send, and Execute returned at the top of the loop
C19_Witness ==
    /\ mpc = "done"
    /\ ctxDone
    /\ execErr = ErrCancelled
    /\ sendErr = ErrNil
    /\ rounds = 1
    /\ sends = 1
    /\ Len(cbLog) = 0


\* C20: an Execute that returns an error returns the empty string; an Execute
\* that returns nil had no failed Conversation.Send; a Send failure seen with
\* ctx cancelled is returned as "execution cancelled" wrapping ctx.Err(), any
\* other Send failure as "failed to get response" wrapping the error of Send.
C20_ErrorsReturnEmptyAndClassifySendFailures ==
    mpc = "done" =>
        /\ execErr # ErrNil => execResult = <<>>
        /\ execErr = ErrNil => failedSends = 0 /\ sendErr = ErrNil
        /\ sendErr # ErrNil =>
              /\ failedSends = 1
              /\ IF ctxDone
                 THEN execErr = ErrCancelled /\ execCause = CtxCanceled
                 ELSE execErr = ErrFailedResponse /\ execCause = sendErr

\* a Send that failed in the transport, after a round of tool dispatch that
\* filled the result buffer, and a ctx cancelled before Execute looked at it
C20_Witness ==
    /\ mpc = "done"
    /\ sendErr \in FailureKinds
    /\ ctxDone
    /\ execErr = ErrCancelled
    /\ execResult = <<>>
    /\ rounds = 1
    /\ resultBuilder # <<>>

\* C23 (the mages): a Reset leaves the mage with the conversation, the result
\* buffer and the context messages of a freshly constructed mage, so the
\* Execute that follows builds its request from an empty log.
ResetRestoresFreshMage ==
    [][MageReset => /\ conversation' = << >>
                    /\ resultBuilder' = << >>
                    /\ contextMessages' = << >>]_vars

\* a Reset has discarded a conversation that held a whole exchange
ResetAfterHistory ==
    /\ executes > 0
    /\ mpc = "idle"
    /\ conversation = << >>
    /\ used = MaxSends

\* the messages a step has put at the end of the log
Added(old, new) == SubSeq(new, Len(old) + 1, Len(new))

\* the log has only grown
Extends(old, new) ==
    /\ Len(old) <= Len(new)
    /\ SubSeq(new, 1, Len(old)) = old

Roles(messages) == {messages[i].role : i \in 1..Len(messages)}

\* C24: the step that enters Execute puts system messages and then the command,
\* the one user-role message of the call, at the end of the log before any Send
\* is issued; every later step of that Execute (a Send returning, a tool
\* callback, the top of the loop between two rounds) adds assistant replies
\* and tool results only.
C24_OneCommandThenRepliesAndResults ==
    [][/\ (executes' = executes + 1) =>
             LET put == Added(conversation, conversation') IN
             /\ Extends(conversation, conversation')
             /\ Len(put) >= 1
             /\ put[Len(put)] = CreateTextMessage(RoleUser, Command)
             /\ Roles(SubSeq(put, 1, Len(put) - 1)) \subseteq {RoleSystem}
             /\ sends' = 0
       /\ (executes' = executes /\ mpc \in {"top", "sending", "inspect", "dispatch"}) =>
             /\ Extends(conversation, conversation')
             /\ Roles(Added(conversation, conversation')) \subseteq {RoleAssistant, RoleTool}]_vars

\* an Execute that went through a round of tool dispatch has returned its
\* answer, and its log holds the command followed by an assistant reply, a
\* tool result and the final reply
C24_Witness ==
    /\ mpc = "done"
    /\ execErr = ErrNil
    /\ executes = 1
    /\ rounds >= 1
    /\ \E i \in 1..Len(conversation) :
          /\ conversation[i] = CreateTextMessage(RoleUser, Command)
          /\ Len(conversation) >= i + 3
          /\ Roles(SubSeq(conversation, i + 1, Len(conversation))) = {RoleAssistant, RoleTool}
          /\ Roles(SubSeq(conversation, 1, i - 1)) \subseteq {RoleSystem}

\* C36: the string a successful Execute returns holds only output produced
\* during that call, whatever earlier Execute calls on the same mage wrote
\* (no Reset in between).  A call that runs no tool produces its final text
\* and nothing else, so it returns that text alone.
C36_ResultHoldsOnlyThisCall ==
    (mpc = "done" /\ execErr = ErrNil /\ rounds = 0) =>
        execResult = response.content

-----------------------------------------------------------------------------
(* Properties of doRequestWithRetry, checked under SpecRetry *)

\* the call has returned after MaxRetries+1 attempts, the last of which
\* failed in the transport
ExhaustedOnTransportError ==
    /\ rpc = "done"
    /\ retryConfig.MaxRetries >= 0
    /\ Len(outcomes) = retryConfig.MaxRetries + 1
    /\ outcomes[Len(outcomes)].kind = "error"

\* C5: when all MaxRetries+1 attempts are used (MaxRetries >= 0) and the last
\* one failed with a transport-level error, the error returned is
\* MaxRetriesExceeded wrapping the last underlying error, not the bare error.
C5_ExhaustedReturnsWrapped ==
    ExhaustedOnTransportError =>
        retErr = Wrap(ErrMaxRetriesExceeded, TransportErr(retryConfig.MaxRetries))

\* C6: every backoff sleep lasts at most MaxDelay, whatever mix of transport
\* errors and 429 responses the attempts met.
C6_SleepsWithinMaxDelay ==
    \A i \in 1 .. Len(sleeps) : sleeps[i] <= retryConfig.MaxDelay

\* every attempt made so far failed in the transport
AllTransportErrors ==
    \A i \in 1 .. Len(outcomes) : outcomes[i].kind = "error"

\* err is cause, or wraps it
Carries(err, cause) ==
    \/ err = cause
    \/ (err.kind = ErrMaxRetriesExceeded /\ err.cause = cause)

\* C11: with MaxRetries = N >= 0, a transport that fails on every attempt and
\* a context that is never cancelled, the call makes N+1 attempts and N
\* sleeps and returns an error carrying the failure of the last attempt.
C11_AttemptsAndSleeps ==
    (rpc = "done" /\ retryConfig.MaxRetries >= 0 /\ AllTransportErrors /\ ~rctxDone)
    => /\ Len(outcomes) = retryConfig.MaxRetries + 1
       /\ Len(sleeps) = retryConfig.MaxRetries
       /\ retResp = NoResp
       /\ Carries(retErr, TransportErr(retryConfig.MaxRetries))

C11_Witness ==
    /\ rpc = "done"
    /\ retryConfig.MaxRetries = MaxRetriesBound
    /\ AllTransportErrors
    /\ ~rctxDone
    /\ Len(outcomes) = MaxRetriesBound + 1
    /\ Len(sleeps) = MaxRetriesBound

\* min(d * BackoffFactor, MaxDelay), the product converted as the code does
NextDelay(d, cfg) ==
    IF Scale(d, cfg.BackoffFactor) > cfg.MaxDelay
    THEN cfg.MaxDelay ELSE Scale(d, cfg.BackoffFactor)

\* the delays in seconds for InitialDelay 1s, BackoffFactor 2, MaxDelay 32s
DefaultBackoffSequence == <<1, 2, 4, 8, 16, 32, 32>>

UsesDefaultDelays ==
    /\ retryConfig.InitialDelay = DefaultInitialDelay
    /\ retryConfig.MaxDelay = DefaultMaxDelay
    /\ retryConfig.BackoffFactor = DefaultBackoffFactor

\* C12: while every attempt fails in the transport the sleeps are
\* d_0 = InitialDelay and d_{i+1} = min(d_i * BackoffFactor, MaxDelay); with
\* the default delays they are 1, 2, 4, 8, 16, 32, 32, ... seconds.
C12_BackoffSequence ==
    AllTransportErrors =>
        /\ Len(sleeps) >= 1 => sleeps[1] = retryConfig.InitialDelay
        /\ \A i \in 1 .. Len(sleeps) - 1 :
              sleeps[i + 1] = NextDelay(sleeps[i], retryConfig)
        /\ UsesDefaultDelays =>
              \A i \in 1 .. Len(sleeps) :
                 sleeps[i] = IF i <= Len(DefaultBackoffSequence)
                             THEN DefaultBackoffSequence[i] ELSE DefaultMaxDelay

C12_Witness ==
    /\ AllTransportErrors
    /\ UsesDefaultDelays
    /\ sleeps = DefaultBackoffSequence

\* attempt i was answered 429 and retried: a sleep followed it
Retried429(i) ==
    /\ i <= Len(sleeps)
    /\ outcomes[i].kind = "response"
    /\ outcomes[i].status = StatusTooManyRequests

Larger(a, b) == IF a > b THEN a ELSE b
Smaller(a, b) == IF a < b THEN a ELSE b

\* h of the claim: the parsed header, or the running delay without a header
HeaderDuration(header, d) ==
    IF header.kind = "absent" THEN d ELSE parseRetryAfter(header)

\* C13: a 429 met with retry enabled and attempts remaining is followed by a
\* sleep of min(max(h, delay), MaxDelay), h being the parsed Retry-After
\* header (seconds, else HTTP date, else the default rate-limit duration) or
\* delay itself without a header; after the sleep the running delay is the
\* slept delay multiplied by BackoffFactor.
C13_RateLimitSleep ==
    \A i \in 1 .. Len(outcomes) :
        /\ ( /\ outcomes[i].kind = "response"
             /\ outcomes[i].status = StatusTooManyRequests
             /\ retryConfig.Enabled
             /\ i - 1 < retryConfig.MaxRetries ) => Retried429(i)
        /\ Retried429(i) =>
             /\ sleeps[i] = Smaller(Larger(HeaderDuration(outcomes[i].header, delays[i]),
                                           delays[i]),
                                    retryConfig.MaxDelay)
             /\ i < Len(delays) =>
                   delays[i + 1] = Scale(sleeps[i], retryConfig.BackoffFactor)
             /\ (i = Len(outcomes) /\ rpc = "loop") =>
                   delay = Scale(sleeps[i], retryConfig.BackoffFactor)

\* a 429 with a header above the running delay and below MaxDelay has been
\* slept through and the next attempt made
C13_Witness ==
    \E i \in 1 .. Len(outcomes) :
        /\ Retried429(i)
        /\ outcomes[i].header = [kind |-> "date", value |-> 2]
        /\ delays[i] = 1
        /\ sleeps[i] = 2
        /\ i < Len(delays)
        /\ delays[i + 1] = 4

\* attempt i was a retried 429 whose Retry-After header is a number of seconds
RetriedWithSeconds(i) ==
    Retried429(i) /\ outcomes[i].header.kind = "seconds"

\* C14 as stated: after a retried 429 with Retry-After of s seconds the wait
\* is at least s seconds whatever the running delay and MaxDelay are, and it
\* is the running delay when that exceeds s.
C14_WaitsAtLeastRetryAfter ==
    \A i \in 1 .. Len(outcomes) :
        RetriedWithSeconds(i) =>
            /\ sleeps[i] >= outcomes[i].header.value
            /\ delays[i] > outcomes[i].header.value => sleeps[i] = delays[i]

\* C14 as amended: the wait never exceeds MaxDelay; it is at least s seconds
\* when s is at most MaxDelay, and MaxDelay otherwise; when the running delay
\* exceeds s the wait is the running delay capped at MaxDelay.
C14_WaitsAtLeastRetryAfterUpToMaxDelay ==
    \A i \in 1 .. Len(outcomes) :
        RetriedWithSeconds(i) =>
            LET s == outcomes[i].header.value IN
            /\ sleeps[i] <= retryConfig.MaxDelay
            /\ s <= retryConfig.MaxDelay => sleeps[i] >= s
            /\ s > retryConfig.MaxDelay => sleeps[i] = retryConfig.MaxDelay
            /\ delays[i] > s => sleeps[i] = Smaller(delays[i], retryConfig.MaxDelay)

\* both cases of the amended claim in one run: a header above MaxDelay cut to
\* MaxDelay, and a header below the running delay
C14_Witness ==
    \E i, j \in 1 .. Len(outcomes) :
        /\ RetriedWithSeconds(i)
        /\ outcomes[i].header.value > retryConfig.MaxDelay
        /\ sleeps[i] = retryConfig.MaxDelay
        /\ RetriedWithSeconds(j)
        /\ outcomes[j].header.value < delays[j]
        /\ sleeps[j] = Smaller(delays[j], retryConfig.MaxDelay)


\* ctx was cancelled while the select of a backoff sleep was waiting
CancelledMidSleep ==
    /\ cancelPoint.pos \in {"sleepErr", "sleep429"}
    /\ ~cancelPoint.due

\* C15: when ctx is cancelled during a backoff sleep, after a transport error or
\* after a 429, doRequestWithRetry leaves the sleep before its timer fires,
\* returns the error of ctx, and calls HTTPClient.Do no more: the attempts made
\* are those made before the cancellation.
C15_CancelDuringSleepReturnsCtxErr ==
    CancelledMidSleep =>
        /\ ~timerDue
        /\ attempt = cancelPoint.attempt
        /\ Len(outcomes) = cancelPoint.attempt + 1
        /\ \/ rpc = cancelPoint.pos
           \/ /\ rpc \in {"done", "sent"}
              /\ retErr = CtxErr
              /\ retResp = NoResp

C15_Witness ==
    /\ CancelledMidSleep
    /\ cancelPoint.pos = "sleep429"
    /\ cancelPoint.attempt = 1
    /\ outcomes[1].kind = "error"
    /\ rpc = "done"
    /\ retErr = CtxErr
    /\ Len(sleeps) = 2


\* the response of attempt i is one the loop does not retry
NotRetried(i) ==
    /\ outcomes[i].kind = "response"
    /\ \/ outcomes[i].status # StatusTooManyRequests
       \/ ~retryConfig.Enabled
       \/ i - 1 >= retryConfig.MaxRetries

\* a response that is not retried ends doRequestWithRetry at its attempt: it is
\* the last call of HTTPClient.Do, it is what the call returns, and no sleep
\* follows it
ReturnedAtOnce ==
    \A i \in 1..Len(outcomes) :
        NotRetried(i) =>
            /\ i = Len(outcomes)
            /\ Len(sleeps) = i - 1
            /\ attempt = i - 1
            /\ rpc \in {"done", "sent"}
            /\ retErr = NoErr
            /\ retResp = [status |-> outcomes[i].status, body |-> outcomes[i].body]

\* doRequestWithRetry handed a response to the buffered Send, which returned
SentAfterResponse == rpc = "sent" /\ retErr = NoErr

\* C16 as stated: a response that is not retried ends doRequestWithRetry with
\* no sleep and no further attempt, and the buffered Send fails with
\* UnexpectedStatusCode carrying status and body exactly when the status is
\* not 200.
C16_NonRetriedResponseAndStatusCheck ==
    /\ ReturnedAtOnce
    /\ SentAfterResponse =>
          (sendRet.err = UnexpectedStatusCode(retResp.status, retResp.body)
              <=> retResp.status # StatusOK)

\* C16 amended: a response that is not retried ends doRequestWithRetry with no
\* sleep and no further attempt; the buffered Send first reads the body, and a
\* body that cannot be read fails with ReadResponseBody whatever the status;
\* once the body is read, Send fails with UnexpectedStatusCode carrying status
\* and body exactly when the status is not 200.
C16_NonRetriedResponseAndStatusCheckOnReadBody ==
    /\ ReturnedAtOnce
    /\ SentAfterResponse =>
          \/ sendRet.err = Wrap(ErrReadResponseBody, ReadErr)
          \/ (sendRet.err = UnexpectedStatusCode(retResp.status, retResp.body)
                 <=> retResp.status # StatusOK)
    /\ SentAfterResponse /\ sendRet.err.kind = ErrUnexpectedStatusCode =>
          /\ retResp.status # StatusOK
          /\ sendRet.err = UnexpectedStatusCode(retResp.status, retResp.body)

C16_Witness ==
    /\ SentAfterResponse
    /\ Len(outcomes) = 2
    /\ outcomes[1].kind = "response"
    /\ outcomes[2].status = StatusTooManyRequests
    /\ retryConfig.Enabled
    /\ retryConfig.MaxRetries = 1
    /\ Len(sleeps) = 1
    /\ sendRet.err = UnexpectedStatusCode(StatusTooManyRequests, "slow down")

\* the provider answered 200 with a well-formed body that carries zero
\* choices, and the buffered Client.Send, having read that body, returned
ZeroChoicesAnswered ==
    /\ SentAfterResponse
    /\ retResp = [status |-> StatusOK, body |-> "{no choices}"]
    /\ sendRet.err # Wrap(ErrReadResponseBody, ReadErr)

\* the response that ended doRequestWithRetry is the last call of
\* HTTPClient.Do, and no sleep follows it
LastAttemptReturned ==
    /\ outcomes[Len(outcomes)].kind = "response"
    /\ retResp = [status |-> outcomes[Len(outcomes)].status,
                  body |-> outcomes[Len(outcomes)].body]
    /\ attempt = Len(outcomes) - 1
    /\ Len(sleeps) = Len(outcomes) - 1

\* the one-message log of a conversation that is being sent
AskedLog == AddUserMessage(<< >>, <<"question">>)

C37_DisabledMakesOneAttempt ==
    (~retryConfig.Enabled /\ retryConfig.MaxRetries >= 0) =>
        /\ sleeps = << >>
        /\ Len(outcomes) <= 1
        /\ rpc = "done" => Len(outcomes) = 1

-----------------------------------------------------------------------------
(* Properties of handleStreamingResponse, checked under SpecStream *)

\* C2: the sink is closed exactly once on every exit path, the end of the
\* body without a [DONE] sentinel included: never closed twice, and never
\* left open once the call has returned.
C2_SinkClosedExactlyOnce ==
    /\ closeCount <= 1
    /\ spc = "returned" => closeCount = 1


\* C17: once the ctx of a streaming Send is cancelled the call returns, whether
\* or not the consumer keeps receiving from the sink.
C17_CancelledStreamingSendReturns == sctxDone ~> (spc = "returned")


\* the call returned at the [DONE] line
ReturnedAtDone == spc = "returned" /\ streamErr = NoErr /\ after.kind = "done"

\* a line whose delta the loop reaches: not empty, not the sentinel, JSON with
\* at least one choice
CarriesDelta(raw) ==
    /\ ~IsEmptyLine(raw)
    /\ raw.text = "json"
    /\ raw.json.choices > 0

\* the tool-call fragments of the lines of a log, in arrival order
RECURSIVE ArrivedFragments(_)
ArrivedFragments(log) ==
    IF log = << >> THEN << >>
    ELSE (IF CarriesDelta(Head(log)) THEN Head(log).json.toolCalls ELSE << >>)
         \o ArrivedFragments(Tail(log))

\* the positions of the fragments that carry an id, in order
StartPositions(frags) ==
    SelectSeq([i \in 1..Len(frags) |-> i], LAMBDA i : frags[i].id # "")

\* the argument texts of the fragments i..j, joined in order
RECURSIVE JoinedArguments(_, _, _)
JoinedArguments(frags, i, j) ==
    IF i > j THEN << >> ELSE frags[i].args \o JoinedArguments(frags, i + 1, j)

\* C21: at [DONE] the returned tool calls are, in order, those started by the
\* fragments that carry an id, and the arguments of the k-th are the argument
\* texts of its starting fragment and of the id-less fragments that arrived
\* before the next fragment with an id, joined in arrival order.
C21_ToolCallsReassembled ==
    ReturnedAtDone =>
        LET frags  == ArrivedFragments(lineLog)
            starts == StartPositions(frags)
            calls  == streamResp.choices[1].toolCalls
        IN  /\ Len(calls) = Len(starts)
            /\ \A k \in 1..Len(starts) :
                  LET next == IF k < Len(starts) THEN starts[k + 1] ELSE Len(frags) + 1
                  IN  /\ calls[k].id = frags[starts[k]].id
                      /\ calls[k].args = JoinedArguments(frags, starts[k], next - 1)

\* 'tc1' 'search' '{q:' followed by 'cats}' and by the start of another call
C21_Witness ==
    /\ ReturnedAtDone
    /\ Len(streamResp.choices[1].toolCalls) = 2
    /\ streamResp.choices[1].toolCalls[1] = Fragment("tc1", "search", <<"{q:", "cats}">>)
    /\ streamResp.choices[1].toolCalls[2].id = "tc3"


\* the content fragments of the lines of a log, in arrival order: empty lines,
\* lines that are not JSON and deltas without content give none
RECURSIVE ArrivedContents(_)
ArrivedContents(log) ==
    IF log = << >> THEN << >>
    ELSE (IF CarriesDelta(Head(log)) /\ Head(log).json.content # << >>
          THEN <<Head(log).json.content>> ELSE << >>)
         \o ArrivedContents(Tail(log))

\* the pieces of a sequence of fragments joined into one string
RECURSIVE Joined(_)
Joined(pieces) == IF pieces = << >> THEN << >> ELSE Head(pieces) \o Joined(Tail(pieces))

\* C22: for a stream ended by [DONE] the chunks put on the sink are one chunk
\* per nonempty content fragment, in arrival order, followed by the done
\* marker, and the content of the final message is those fragments joined in
\* the same order; empty and unparseable lines contribute nothing.
C22_ContentReassembled ==
    ReturnedAtDone =>
        LET contents == ArrivedContents(lineLog)
            chunks   == received \o sink
        IN  /\ Len(chunks) = Len(contents) + 1
            /\ \A i \in 1..Len(contents) : chunks[i] = ContentChunk(contents[i])
            /\ chunks[Len(chunks)] = DoneChunk
            /\ streamResp.choices[1].content = Joined(contents)

\* 'Hel', 'lo' gives 'Hello' with no tool calls
C22_Witness ==
    /\ ReturnedAtDone
    /\ received \o sink = <<ContentChunk(<<"Hel">>), ContentChunk(<<"lo">>), DoneChunk>>
    /\ streamResp.choices[1].content = <<"Hel", "lo">>
    /\ streamResp.choices[1].toolCalls = << >>


\* the chunks the call has put on the sink, in the order of the sends
Sent == received \o sink

IsErrorChunk(chunk) == chunk.Error # NoErr
IsTerminal(chunk) == chunk.Done \/ IsErrorChunk(chunk)

\* the scanner handed out a line after the [DONE] line
ReadPastDone ==
    \E i \in 1..Len(lineLog) :
        /\ i < Len(lineLog)
        /\ ~IsEmptyLine(lineLog[i])
        /\ lineLog[i].text = "[DONE]"

\* C38: the chunks a streaming Send puts on the sink end with exactly one
\* terminal chunk that matches what the call returns: a done marker and no
\* error chunk when it returns a response, an error chunk and no done marker
\* when it returns an error; nothing is sent after the terminal chunk, and
\* no line after [DONE] is read.
C38_OneTerminalChunkMatchesReturn ==
    /\ \A i \in 1..Len(Sent) : IsTerminal(Sent[i]) => i = Len(Sent) /\ spc = "returned"
    /\ ~ReadPastDone
    /\ spc = "returned" =>
          /\ Sent # << >>
          /\ LET last == Sent[Len(Sent)] IN
                IF streamErr = NoErr
                THEN last.Done /\ ~IsErrorChunk(last)
                ELSE IsErrorChunk(last) /\ ~last.Done

-----------------------------------------------------------------------------
(* Properties of the top-level agent, checked under SpecAgent *)

\* C3: a SendMessage that arrives while a turn is outstanding (its initial
\* request, its tool dispatch or a follow-up request has not ended) is
\* rejected with "request already in progress", appends no user message and
\* starts no request.
C3_RejectsWhileTurnOutstanding ==
    lastCall.busy =>
        /\ lastCall.err = ErrInProgress
        /\ ~lastCall.appended
        /\ ~lastCall.started

\* C4: a Conversation.Send is issued only with a log in which every tool call
\* of every assistant message has its tool-result message; for a response
\* with two or more tool calls no Send falls between the first and the last
\* tool-result append.
C4_SendOnlyAfterAllToolResults ==
    ~lastSend.interrupted =>
        \A j \in 1..Len(lastSend.log) :
            \A i \in 1..Len(lastSend.log[j].toolCalls) :
                ToolMessagesFor(lastSend.log, lastSend.log[j].toolCalls[i].id) # {}


\* C18: InterruptCurrentRequest cancels only the request in flight: the agent
\* stays running (nothing in the agent cancels its own context), and the next
\* SendMessage after the interruption is accepted, returns nil and starts a
\* request.
C18_SendAcceptedAfterInterrupt ==
    /\ sinceInterrupt => running
    /\ lastCall.afterInterrupt =>
          /\ running
          /\ lastCall.err = ErrNil
          /\ lastCall.started

\* the log holds no user-role message
NoUserMessage(messages) ==
    \A i \in 1..Len(messages) : messages[i].role # RoleUser

\* C23 (the agent): after ResetConversation, and until the next SendMessage
\* appends its user message, the conversation the agent holds has the message
\* log of a freshly constructed agent: the system prompt alone, with no
\* user, assistant or tool message of the history that preceded the reset.
C23_ResetConversationIsFresh ==
    (resets > 0 /\ NoUserMessage(convs[agentConv]))
        => convs[agentConv] = FreshConversation

\* the goroutines whose Conversation.Send has been called and has not returned
InFlight == {t \in 1..Len(tasks) : tasks[t].pc = "inflight"}

\* C32: at most one request to the model is in flight at any time: while the
\* agent works on one accepted SendMessage that nothing has cancelled, no
\* two Conversation.Send calls overlap, whatever the number of tool calls an
\* assistant response carries.
C32_OneRequestInFlight ==
    (accepted = 1 /\ cancelled = {} /\ resets = 0) => Cardinality(InFlight) <= 1


\* C33: whenever a request to the model is in flight and has not been
\* cancelled, the stored cancellation handle activeRequest is the cancel
\* function of that request, so that InterruptCurrentRequest would cancel it;
\* a finishing goroutine neither clears nor overwrites the handle of a
\* request another goroutine started.  The case of one tool call for each
\* response and of one SendMessage is enough: no two requests are started
\* side by side there.
C33_HandleIsTheRequestInFlight ==
    (accepted = 1 /\ nextCallId <= 2 /\ resets = 0) =>
        \A t \in InFlight : t \notin cancelled => activeRequest = t


\* C34: after InterruptCurrentRequest has cancelled a request of the turn
\* that is outstanding, the agent issues no further request to the model for
\* that turn, also when the interruption arrives while a tool executor of
\* the turn is running: no follow-up request is in flight under a context
\* that has not been cancelled.  The case of one SendMessage and of one tool
\* call for each response is enough.
C34_NoFollowUpAfterInterrupt ==
    (accepted = 1 /\ nextCallId <= 2 /\ resets = 0 /\ interrupted) =>
        \A t \in InFlight : tasks[t].kind = "followup" => t \in cancelled


\* the tool-call ids the assistant messages of a log ask for
CallsAsked(messages) ==
    UNION {{messages[k].toolCalls[i].id : i \in 1..Len(messages[k].toolCalls)} :
              k \in {j \in 1..Len(messages) : messages[j].role = RoleAssistant}}

\* C35: after ResetConversation no message of a turn that was started before
\* the reset is appended to the new conversation: every tool result a
\* conversation holds answers a tool call of an assistant message of that
\* same conversation, since the model was asked with the log of that
\* conversation and its answer was appended to it.
C35_LateActivityStaysInOldConversation ==
    \A c \in 1..Len(convs) :
        \A j \in 1..Len(convs[c]) :
            convs[c][j].role = RoleTool =>
                convs[c][j].toolCallID \in CallsAsked(convs[c])

-----------------------------------------------------------------------------
(* Properties of the Conversation log *)

\* C25: whatever calls were made before, the log before a call is a prefix of
\* the log after it; an Add* call leaves the log one message longer, that
\* message being at the end with the role and the content of the call (and,
\* for a tool result, its tool-call id); a Send adds the reply at the end or
\* nothing at all.  No call removes or reorders messages.
C25_LogAppendOnly ==
    /\ Extends(convBefore, convMessages)
    /\ convCall.op \in {"AddSystemMessage", "AddUserMessage", "AddAssistantMessage",
                        "AddComplexUserMessage", "AddToolResult"} =>
          /\ Len(convMessages) = Len(convBefore) + 1
          /\ LET m == convMessages[Len(convMessages)] IN
             /\ m.role = convCall.role
             /\ m.content = convCall.content
             /\ m.toolCallID = convCall.id
             /\ m.isString = (convCall.op # "AddComplexUserMessage")
    /\ convCall.op = "Send" =>
          IF convCall.id = ErrNil
          THEN convMessages = Append(convBefore, convCall.content)
          ELSE convMessages = convBefore

\* a log built by a user message, a successful Send and a tool result
C25_Witness ==
    /\ Len(convMessages) = 3
    /\ convMessages[1].role = RoleUser
    /\ convMessages[2].role = RoleAssistant
    /\ Len(convMessages[2].toolCalls) > 0
    /\ convCall.op = "AddToolResult"
    /\ convBefore = SubSeq(convMessages, 1, 2)

-----------------------------------------------------------------------------
(* Properties of the tool kit *)

\* C26: a HandleResponseCalls call on a kit without a callback returns the
\* error "no callback set" and has run no executor and made no callback,
\* whichever tools the response asked for; on a kit with a callback it
\* returns nil, whether the executors succeeded, failed or were not found.
C26_NoCallbackFailsFirstElseNil ==
    kitHandled # NoHandled =>
        IF ~kitCallback
        THEN /\ kitHandled.err = ErrNoCallback
             /\ kitHandled.executed = << >>
             /\ kitHandled.callbacks = << >>
        ELSE /\ kitHandled.err = ErrNil
             /\ Len(kitHandled.callbacks) = Len(kitHandled.calls)

\* a kit without a callback was handed a response that asks for a tool it holds
C26_Witness ==
    /\ ~kitCallback
    /\ kitHandled.err = ErrNoCallback
    /\ \E i \in 1..Len(kitHandled.calls) :
          FindTool(kitTools, kitHandled.calls[i].name) # 0

\* a kit with a callback was handed a response with a failing executor and an
\* unknown tool
HandledFailingTools ==
    /\ kitCallback
    /\ kitHandled.err = ErrNil
    /\ Len(kitHandled.executed) = 1
    /\ Len(kitHandled.callbacks) = 2
    /\ \A i \in 1..2 : kitHandled.callbacks[i].isError

\* C27: on a kit whose registry is no longer changed, every GetTools call
\* returns the same list, which holds the declaration of each registered tool
\* once and in registration order; a second call leaves the cached list as
\* the first call built it.  A kit without tools returns the empty list every
\* time.
C27_GetToolsIdempotent ==
    /\ \A i \in 1..Len(kitReturned) :
          /\ kitReturned[i] = Definitions(kitTools)
          /\ i > 1 => kitReturned[i] = kitReturned[i - 1]
    /\ Len(kitReturned) > 0 => ironedTools = Definitions(kitTools)
    /\ Len(ironedTools) \in {0, Len(kitTools)}

\* GetTools was called twice on a kit of two different tools
C27_Witness ==
    /\ Len(kitReturned) >= 2
    /\ Len(kitTools) = 2
    /\ kitTools[1] # kitTools[2]
    /\ kitReturned[2] = <<GetDefinition(kitTools[1]), GetDefinition(kitTools[2])>>

\* GetTools was called twice on a kit without tools
GetToolsTwiceOnEmptyKit ==
    /\ Len(kitReturned) >= 2
    /\ kitTools = << >>
    /\ kitReturned[2] = << >>

-----------------------------------------------------------------------------
(* Properties of replace_in_file *)

\* the target of the last call lies in the project and exists
TargetRead ==
    /\ replArgs # NoArgs
    /\ replArgs.file_path = InsidePath
    /\ InsidePath \in DOMAIN filesBefore

\* the non-overlapping occurrences of the pattern of the last call in the
\* target as it was, letters compared without their case when the call asks
\* for it
Occurrences ==
    IF replArgs.ignore_case
    THEN Count(ToLower(filesBefore[InsidePath]), ToLower(replArgs.pattern))
    ELSE Count(filesBefore[InsidePath], replArgs.pattern)

\* C29: a call with dry_run set, or with a pattern that does not occur in the
\* file, leaves every file as it was, creates no backup and reports
\* matches_found, the number of occurrences of the pattern; a call with a
\* path outside the project bounds returns an error and leaves every file as
\* it was.
C29_DryRunAndNoMatchLeaveFiles ==
    /\ (TargetRead /\ (replArgs.dry_run \/ Occurrences = 0)) =>
          /\ files = filesBefore
          /\ replResult.kind \in {"dry_run", "no_matches"}
          /\ replResult.matches_found = Occurrences
    /\ (replArgs # NoArgs /\ replArgs.file_path = OutsidePath) =>
          /\ files = filesBefore
          /\ replResult.kind = "error"

\* the backup names of the target
BackupNames == {BackupName(InsidePath, i) : i \in 0..MaxReplaceCalls}

\* C30: a call that has replaced at least one occurrence with create_backup
\* true or omitted has created exactly one file, under an unused name of the
\* series file.bak, file.bak1, file.bak2, ..., holding the content the target
\* had, reports that name as backup_path and has changed no other file than
\* the target (no existing backup is overwritten); a call whose backup could
\* not be written has not touched the target; with create_backup false no
\* file is created and no backup_path is reported.
C30_BackupHoldsOriginalUnderFreshName ==
    /\ (replResult.kind = "replaced" /\ replArgs.create_backup # "false") =>
          /\ replResult.backup_path \in BackupNames
          /\ replResult.backup_path \notin DOMAIN filesBefore
          /\ DOMAIN files = DOMAIN filesBefore \cup {replResult.backup_path}
          /\ files[replResult.backup_path] = filesBefore[InsidePath]
          /\ \A p \in DOMAIN filesBefore \ {InsidePath} : files[p] = filesBefore[p]
    /\ (replResult = Failed("failed to create backup")) =>
          files[InsidePath] = filesBefore[InsidePath]
    /\ (replResult.kind = "replaced" /\ replArgs.create_backup = "false") =>
          /\ replResult.backup_path = NoPath
          /\ DOMAIN files = DOMAIN filesBefore
          /\ \A p \in DOMAIN filesBefore \ {InsidePath} : files[p] = filesBefore[p]

\* a second replacement was made while the backup of the first one existed
C30_Witness ==
    /\ replResult.kind = "replaced"
    /\ replArgs.create_backup = "omitted"
    /\ BackupName(InsidePath, 0) \in DOMAIN filesBefore
    /\ replResult.backup_path = BackupName(InsidePath, 1)
    /\ files[BackupName(InsidePath, 0)] # files[BackupName(InsidePath, 1)]
    /\ files[InsidePath] # filesBefore[InsidePath]

-----------------------------------------------------------------------------
(* Properties of grep_file *)

\* the call of grep_file has returned a result, not an error
GrepAnswered == gpc = "returned" /\ grepResult.kind \in {"matches", "no_matches"}

\* the scanner has read the file line by line: the line it yielded last is
\* the text between two line ends of the file, the second of them where the
\* scanner stands, and it has yielded one line for each line end it passed
ScannedLineIsNextLine ==
    (gpc \in {"scan", "returned"} /\ allLines # << >>) =>
        LET text == grepFiles[grepArgs.file_path]
            last == allLines[Len(allLines)]
            stop == IF text[grepPos] = "\n" THEN grepPos - 1 ELSE grepPos
            from == stop - Len(last)
        IN  /\ SubSeq(text, from + 1, stop) = last
            /\ \A k \in 1..Len(last) : last[k] # "\n"
            /\ from = 0 \/ text[from] = "\n"
            /\ text[grepPos] = "\n" \/ grepPos = Len(text)
            /\ Len(allLines) =
                  Cardinality({j \in 1..grepPos : text[j] = "\n"})
                  + (IF text[grepPos] = "\n" THEN 0 ELSE 1)

\* two characters are the same, up to case when fold is set
SameChar(c, d, fold) ==
    \/ c = d
    \/ fold /\ {c, d} = {"a", "A"}

\* the pattern occurs in the line
Occurs(pattern, line, fold) ==
    \E offset \in 0..(Len(line) - Len(pattern)) :
        \A k \in 1..Len(pattern) : SameChar(line[offset + k], pattern[k], fold)

\* the line numbers of the matching lines of the file searched
MatchingLines ==
    {l \in 1..Len(allLines) :
        Occurs(grepGiven.pattern, allLines[l], grepGiven.ignore_case)}

\* the limit the caller asked for
GrepLimit ==
    IF grepGiven.max_matches <= 0 THEN DefaultMaxMatches ELSE grepGiven.max_matches

\* C31: grep_file returns at most max_matches matches (100 when max_matches
\* is absent or not positive); the matches are matching lines of the file,
\* as the scanner read them, in ascending line order with their text, none
\* before the last one returned is left out, every matching line is returned
\* when there are no more than the limit, and when there are more the result
\* holds exactly the first max_matches of them with the warning that results
\* were limited; a line matches up to case exactly when ignore_case is set.
C31_GrepReturnsFirstMatchesUpToLimit ==
    GrepAnswered =>
        LET matching == MatchingLines
            n == Len(grepResult.matches)
            rank == [l \in matching |-> Cardinality({h \in matching : h < l})]
        IN  /\ n <= GrepLimit
            /\ \A i \in 1..n :
                  LET number == grepResult.matches[i].line_number
                  IN  /\ number \in matching
                      /\ rank[number] = i - 1
                      /\ grepResult.matches[i].line = allLines[number]
            /\ n = IF Cardinality(matching) > GrepLimit THEN GrepLimit
                   ELSE Cardinality(matching)
            /\ Cardinality(matching) > GrepLimit =>
                  grepResult.warning = [present |-> TRUE, limit |-> GrepLimit]

\* a file with more matching lines than the default limit was searched
\* without max_matches and up to case
C31_Witness ==
    /\ GrepAnswered
    /\ grepGiven.max_matches = 0
    /\ grepGiven.ignore_case
    /\ grepGiven.pattern = <<"A">>
    /\ Cardinality(MatchingLines) > DefaultMaxMatches
    /\ Len(grepResult.matches) = DefaultMaxMatches
    /\ grepResult.warning.present

\* a limit of one cut a search that case kept apart from a second line
GrepLimitedCaseSensitive ==
    /\ GrepAnswered
    /\ grepGiven.max_matches = 1
    /\ ~grepGiven.ignore_case
    /\ Cardinality(MatchingLines) = 2
    /\ grepResult.warning.present

-----------------------------------------------------------------------------
(* Properties of the loop of Execute, checked under FairSpecLoop *)

\* Execute returns without its ctx having been cancelled only from the
\* inspection of a reply without tool calls or of a failed Send, and that
\* inspection makes it return
ReturnsExactlyOnTextOrFailure ==
    [][(~loopCtxDone /\ lpc' # lpc) =>
          (lpc' = "done" <=> (lpc = "inspect" /\ (loopResp = "fail" \/ loopCalls = 0)))]_vars

\* once ctx is cancelled no new request is sent to the model
NoSendOnceCancelled ==
    [][(loopCtxDone /\ lpc' = "sending") => lpc = "sending"]_vars

\* C39: the loop of Execute has no cap on its rounds, and the caller's ctx
\* bounds it.  Against a model that asks for tools on every turn, Execute
\* returns only after ctx was cancelled, and once ctx is cancelled it
\* eventually returns "execution cancelled", without sending a further
\* request; without cancellation Execute returns exactly when a reply has no
\* tool calls or a Send failed.
C39_LoopBoundedByContextOnly ==
    /\ [](loopModel = "tools" /\ lpc = "done" => loopCtxDone /\ loopErr = ErrCancelled)
    /\ (loopModel = "tools" /\ lpc \in LoopRunning /\ loopCtxDone)
           ~> (lpc = "done" /\ loopErr = ErrCancelled)
    /\ NoSendOnceCancelled
    /\ ReturnsExactlyOnTextOrFailure
    /\ [](lpc = "done" /\ ~loopCtxDone =>
             \/ loopResp = "fail" /\ loopErr = ErrFailedResponse
             \/ loopResp \in {"text", "notstring"} /\ loopCalls = 0)

\* the model asked for tools in MaxLoopRounds rounds and more, ctx was
\* cancelled during a round of dispatch, and Execute returned at the top of
\* the loop
C39_Witness ==
    /\ loopModel = "tools"
    /\ loopRounds = MaxLoopRounds
    /\ lpc = "done"
    /\ loopCtxDone
    /\ loopErr = ErrCancelled
    /\ loopResp = "tools"

\* every Execute that runs returns; this does not hold, the loop having no
\* cap: a model that asks for tools on every turn keeps it going
EventuallyReturns == (lpc \in LoopRunning) ~> (lpc = "done")

-----------------------------------------------------------------------------
(* Properties of the turns of the agent, checked under FairSpecTurn *)

\* a goroutine of the agent is dispatching the tool calls of a reply
TurnDispatching == \E k \in TurnSlots : turnSlots[k].pc = "dispatch"

\* C40 as stated: every SendMessage that returns nil is eventually followed
\* by an OnComplete or an OnError of the Observer, when the model answers
\* every request (with a text, with tool calls or with a failure) and every
\* tool executor returns, interrupted or not.
C40_AcceptedMessageIsNotified == turnAwaiting ~> ~turnAwaiting

\* C40, amended: the same, for a model that from some point on no longer
\* answers with tool calls.
C40_NotifiedOnceToolsStop ==
    (<>[]~TurnDispatching) => (turnAwaiting ~> ~turnAwaiting)

\* the request of an accepted message was interrupted and the Observer was
\* told of the error
C40_Witness ==
    /\ ~turnAwaiting
    /\ turnNote = Note("error", TRUE)
    /\ turnErr = ErrNil

=============================================================================
